---- MODULE Spec2Model ----
(***************************************************************************)
(* Task execution and verification engine of src/act_backend.py            *)
(* (ComputerUseAgentBackend): the request loop run_frontend_loop on the    *)
(* main thread, and the run of execute_task on the execution thread:       *)
(* planning, the step loop of _execute_task_with_verification, the retry   *)
(* loop of execute_action_with_verification, recovery (replan) and the     *)
(* final completion judgment.                                              *)
(*                                                                         *)
(* Every blocking external call (oracle, actuator, verifier, discovery)    *)
(* is a control point of the execution thread: the call is in flight while *)
(* pc names it, and the action that leaves the control point draws the     *)
(* call's result.  Requests of the frontend interleave freely with them.   *)
(*                                                                         *)
(* Step parameters are taken to be JSON objects, as the system prompt      *)
(* demands of the oracle.                                                  *)
(***************************************************************************)
EXTENDS Naturals, Sequences, FiniteSets, TLC

\* ------------------------------------------------------------------ bounds
\* execution threads started over the life of the process
MaxRuns == 2
\* length of an oracle plan (initial or recovery)
MaxPlanLen == 2
\* actuator calls of step operations within one run
MaxCalls == 6

\* ------------------------------------------------------- program constants
\* self.max_action_retries = 3
max_action_retries == 3

\* ------------------------------------------------------------------- state
VARIABLES
    stop_event,        \* threading.Event: the cancel flag
    execution_thread,  \* id of the Thread object held by self.execution_thread, 0 = None
    threads,           \* thread id -> "new" | "alive" | "dead"
    last_event,        \* the last FRONTEND_MESSAGE printed
    pc,                \* control point of the execution thread
    actions,           \* local `actions` of _execute_task_with_verification
    current_step,      \* local `current_step` (0-based)
    task_success,      \* local `task_success`
    retry,             \* loop variable of execute_action_with_verification
    ui_context,        \* local `ui_context` of execute_action_with_verification
    outcome,           \* terminal report of the current run, "none" before it
    n_act,             \* history: execute_action(action) calls of step operations in this run
    n_verify,          \* history: verify_action calls in this run
    n_judge,           \* history: verify_action calls of this run that went on to
                       \*          re-observe the screen and ask the judge
    n_recovery,        \* history: recovery oracle requests in this run
    attempts,          \* history: execute_action(action) calls in the current call of
                       \*          execute_action_with_verification
    verifies,          \* history: verify_action calls in the current call of
                       \*          execute_action_with_verification
    recov_here,        \* history: recovery requests since current_step last changed
    all_first,         \* history: no attempt of this run has failed so far
    cancel_in_run,     \* history: cancel_task arrived after this run was started and
                       \*          before its report
    stale_cancel,      \* history: stop_event was still set from an earlier cancel_task
                       \*          when the request of this run was taken up
    completed,         \* local `completed` of the final judgment, False until it is read
    screenshots,       \* screenshot_*.png files are in self.screenshot_dir
    task_ui_context,   \* local `ui_context` of _execute_task_with_verification
    events,            \* history: type and success of the FRONTEND_MESSAGEs of the
                       \*          current iteration of the step loop, in order
    \* src/backends/enhanced_act_backend.py: EnhancedComputerUseAgentBackend.execute_task
    \* and its EnhancedActionExecutor
    pyautogui_available, \* executor.pyautogui_available
    held_keys,         \* executor.held_keys
    e_pc,              \* control point of execute_task, "idle" outside it
    e_step,            \* local `step`
    e_actions,         \* the actions of the current step still to be executed
    task_done,         \* local `task_success`
    step_success,      \* local `step_success`
    error_count,       \* agent_state.error_count
    e_return,          \* history: how the last call of execute_task returned
    recovery_plan,     \* execute_task's local actions as the recovery branch left it
    \* src/act_backend.py: one call of send_to_llm
    response_text,     \* local `response_text`, as a sequence of tokens
    json_str,          \* local `json_str`
    loaded,            \* the value json.loads(json_str) returned
    llm_response,      \* what send_to_llm returned
    s_pc,              \* control point of send_to_llm, "idle" outside it
    \* src/act_backend.py: the step loop with the steps' contents and its action_step
    \* messages
    l_actions,         \* local `actions`, each step with description, action, parameters
    l_current,         \* local `current_step`
    l_log,             \* the action_step messages printed so far
    l_pc,              \* control point of the step loop, "idle" outside it
    \* src/act_backend.py: one call of execute_action for a focus_window step
    f_pc,              \* control point of the focus_window branch, "idle" outside it
    f_max_attempts,    \* params.get('max_attempts', 5)
    f_verify_focus,    \* params.get('verify_focus', True)
    f_attempt,         \* local `attempt`
    f_focus_verified,  \* local `focus_verified`
    f_success,         \* result["success"]
    f_answers,         \* history: the focus judge's answers of this call, in order
    o_pc,              \* Ollama backend: position in execute_task, "idle" outside it
    o_actions,         \* Ollama backend: local actions, the plan
    o_idx,             \* Ollama backend: idx of the for loop over the plan
    o_attempt,         \* Ollama backend: attempt of the inner for loop
    o_log,             \* history: how each step of the plan ended, in order
    o_message          \* the last message of execute_task to the frontend

cancelVars == <<cancel_in_run, stale_cancel>>
mainVars == <<stop_event, execution_thread, threads>>
loopVars == <<actions, current_step, task_success>>
callVars == <<retry, ui_context, attempts, verifies, events>>
histVars == <<n_act, n_verify, n_judge, n_recovery, recov_here, all_first>>
finalVars == <<completed, screenshots>>
enhVars == <<pyautogui_available, held_keys, e_pc, e_step, e_actions, task_done,
             step_success, error_count, e_return, recovery_plan>>
engineVars == <<stop_event, execution_thread, threads, last_event, pc, actions,
                current_step, task_success, retry, ui_context, outcome, n_act,
                n_verify, n_judge, n_recovery, attempts, verifies, recov_here, all_first,
                cancel_in_run, stale_cancel, completed, screenshots,
                task_ui_context, events>>
parseVars == <<response_text, json_str, loaded, llm_response, s_pc>>
logVars == <<l_actions, l_current, l_log, l_pc>>
focusVars == <<f_pc, f_max_attempts, f_verify_focus, f_attempt, f_focus_verified,
              f_success, f_answers>>
ollamaVars == <<o_pc, o_actions, o_idx, o_attempt, o_log, o_message>>
auxVars == <<focusVars, ollamaVars>>
vars == <<engineVars, enhVars, parseVars, logVars, auxVars>>

\* ------------------------------------------------------------------ inputs
\* A step of a plan: whether the oracle declared a 'verification' block for it.
Steps == [verification : BOOLEAN]

SeqsUpTo(S, n) == UNION {[1..k -> S] : k \in 1..n}

\* the five-step plan of Scenario D
ScenarioDPlan == [i \in 1..5 |-> [verification |-> TRUE]]

\* task-typed responses send_to_llm lets through: a non-empty list of steps
PlanningPlans == SeqsUpTo(Steps, MaxPlanLen) \cup {ScenarioDPlan}
RecoveryPlans == SeqsUpTo(Steps, MaxPlanLen)

\* request texts: req_data.get('text', '') or ''
TaskTexts == {"", "task"}

\* verdicts of verify_action that are not verified
FailedStatuses == {"failure", "partial", "error"}

\* ui_context = {} of execute_action_with_verification, as far as it is read:
\* ui_context.get('requires_reanalysis') and the key 'ui_elements'
NoContext == [requires_reanalysis |-> FALSE, ui_elements |-> "absent"]
\* ui_context = {} of _execute_task_with_verification
NoTaskContext == [ui_elements |-> "absent"]

\* a FRONTEND_MESSAGE: its type, what it is about and its success field
Event(t, about, ok) == [type |-> t, about |-> about, success |-> ok]
BusyError == Event("error", "Agent is busy with another task", FALSE)
\* send_action_complete(task, task_success, completion_message)
TaskSummary(ok) == Event("action_complete", "task", ok)

\* a FRONTEND_MESSAGE as the history of an iteration keeps it
Msg(t, ok) == [type |-> t, success |-> ok]
\* send_message("action_step", ...) at the head of an iteration
StepStart == <<Msg("action_step", FALSE)>>
\* send_action_start(action.get('description', ...))
AttemptStart == <<Msg("action_start", FALSE)>>
\* send_action_complete(description, ok, message) that ends an attempt
AttemptEnd_silent(ok) == << >>
AttemptEnd(ok) == <<Msg("action_complete", ok)>>

\* ----------------------------------------------------------------- helpers
\* self.execution_thread and self.execution_thread.is_alive()
ThreadBusy_unguarded == FALSE
ThreadBusy_everStarted == execution_thread # 0
ThreadBusy ==
    /\ execution_thread # 0
    /\ threads[execution_thread] = "alive"

ActiveThreads == {t \in DOMAIN threads : threads[t] = "alive"}

\* the execution thread is running the code of execute_task
Running == execution_thread # 0 /\ threads[execution_thread] = "alive"

\* self.stop_event.is_set() as read at the top of the step loop
StopObserved_never == FALSE
StopObserved == stop_event

\* self.stop_event.clear() when a request is taken up
ClearedFlag_stale(f) == f
ClearedFlag(f) == FALSE

\* for retry in range(max_retries): the first value of retry in a call; replans
\* is the number of recovery requests made at this step index
FirstRetry_shared(replans) == IF replans > 0 THEN max_action_retries - 1 ELSE 0
FirstRetry(replans) == 0

\* retry < max_retries - 1
HasRetriesLeft_offByOne(r) == r < max_action_retries
HasRetriesLeft(r) == r < max_action_retries - 1

\* current_step += 1
StepAdvance_skip(i) == i + 2
StepAdvance(i) == i + 1

\* actions[:current_step] + recovery_actions
ReplacePlan_append(acts, i, rec) == acts \o rec
ReplacePlan_whole(acts, i, rec) == rec
ReplacePlan(acts, i, rec) == SubSeq(acts, 1, i) \o rec

\* ------------------------------------------------------------ execute_action
\* action types execute_action has a branch for, one it is asked for but has no
\* branch for (analyze_ui), and one nobody knows
GuiActions == {"click", "double_click", "type", "key_press", "scroll"}
CheckedGuiActions == {"mouse_move", "drag", "execute_pyautogui"}
ActionTypes ==
    GuiActions \cup CheckedGuiActions
        \cup {"screenshot", "focus_window", "terminal", "wait", "human_in_the_loop",
              "analyze_ui", "unknown"}

\* the circumstances of one call: the action type, GUI_AVAILABLE and pyautogui,
\* the state of the step's parameters, and what the underlying call does
\* ("fails": it returns, reporting no success; "raises": it raises an Exception)
ActuatorCalls ==
    [action : ActionTypes,
     gui : BOOLEAN,
     parameters : {"valid", "missing", "invalid"},
     call : {"ok", "fails", "raises"}]

Result(ok, msg) == [success |-> ok, message |-> msg]

\* the result dictionary execute_action returns
execute_action_optimistic(c) == Result(c.call # "fails", "")
execute_action(c) ==
    CASE c.action = "screenshot" ->
            IF c.call = "ok" THEN Result(TRUE, "filepath") ELSE Result(FALSE, "")
      [] c.action \in GuiActions \cup {"focus_window"} ->
            IF ~c.gui THEN Result(FALSE, "GUI not available")
            ELSE IF c.parameters = "invalid" \/ c.call = "raises"
                 THEN Result(FALSE, "str(e)")
            ELSE IF c.action = "focus_window" /\ c.call = "fails"
                 THEN Result(FALSE, "Failed to focus")
            ELSE Result(TRUE, "done")
      [] c.action \in CheckedGuiActions ->
            IF ~c.gui THEN Result(FALSE, "GUI not available")
            ELSE IF c.parameters = "missing" THEN Result(FALSE, "required")
            ELSE IF c.parameters = "invalid" /\ c.action # "execute_pyautogui"
                 THEN Result(FALSE, "Invalid coordinates")
            ELSE IF c.parameters = "invalid" \/ c.call = "raises"
                 THEN Result(FALSE, "str(e)")
            ELSE Result(TRUE, "done")
      [] c.action = "terminal" ->
            IF c.call = "raises" THEN Result(FALSE, "str(e)")
            ELSE Result(c.call = "ok", "output")
      [] c.action = "wait" ->
            IF c.parameters = "invalid" \/ c.call = "raises"
            THEN Result(FALSE, "str(e)")
            ELSE Result(TRUE, "Waited")
      [] c.action = "human_in_the_loop" ->
            IF c.parameters = "missing"
            THEN Result(FALSE, "Action description required")
            ELSE Result(TRUE, "Human-in-the-loop requested")
      [] OTHER -> Result(FALSE, "Unknown action")

\* the success fields execute_action can return
PossibleSuccess == {execute_action(c).success : c \in ActuatorCalls}

\* what execute_action returns for the discovery step {"action": "analyze_ui", ...}
AnalyzeUiResults ==
    {execute_action(c) : c \in {d \in ActuatorCalls : d.action = "analyze_ui"}}

\* if reanalysis_result.get('success'): if reanalysis_result.get('ui_elements'):
\* ui_context['ui_elements'] = reanalysis_result['ui_elements']
Refreshed(ctx, result) ==
    IF result.success /\ "ui_elements" \in DOMAIN result
    THEN [ctx EXCEPT !.ui_elements = "found"]
    ELSE ctx

\* if action.get('action') == 'analyze_ui' and result.get('success'):
\* ui_context['ui_elements'] = ...: what the step loop's ui_context can be after a
\* step that succeeded, which is an analyze_ui step only if that can succeed
StoredAnalysis(ctx) ==
    {ctx} \cup {[ctx EXCEPT !.ui_elements = "found"] :
                    r \in {a \in AnalyzeUiResults : a.success}}

\* -------------------------------------------------------------- verify_action
\* what the judge call model.generate_content does for a verification request:
\* it raises (transport fault, timeout), or its text holds no JSON, JSON that
\* does not parse, JSON that is not an object, or a JSON object, whose
\* verification_status may be absent
VerificationStatuses == {"success", "failure", "partial"}
JudgeFaults == {"raises", "no_json", "bad_json", "not_object"}
JudgeReplies ==
    [text : JudgeFaults \cup {"object"},
     verification_status : VerificationStatuses \cup {"absent"},
     requires_reanalysis : BOOLEAN]

\* what _send_verification_to_llm returns: json.loads(json_str), or its error
\* dictionary; a parsed value that is not an object is handed on as it is
Response(is_dict, st, re) ==
    [is_dict |-> is_dict, verification_status |-> st, requires_reanalysis |-> re]
SendVerification_asFailure(reply) ==
    IF reply.text \in JudgeFaults
    THEN Response(TRUE, "failure", TRUE)
    ELSE Response(TRUE, reply.verification_status, reply.requires_reanalysis)
SendVerification(reply) ==
    IF reply.text \in {"raises", "no_json", "bad_json"}
    THEN Response(TRUE, "error", FALSE)
    ELSE IF reply.text = "not_object"
    THEN Response(FALSE, "absent", FALSE)
    ELSE Response(TRUE, reply.verification_status, reply.requires_reanalysis)

\* verification_info = action.get('verification', {}) is not empty: verify_action
\* goes on to take a screenshot and ask the judge
ConsultsJudge_always(step) == TRUE
ConsultsJudge(step) == step.verification

Verdict(v, st, re) == [verified |-> v, status |-> st, requires_reanalysis |-> re]

\* the verdict's message, as far as it tells an error from a failed check:
\* "Verification error: ..." or "Verification failed: Error during verification
\* ..." for the status error, "Verification failed: <observations>" otherwise
VerdictMessage(status) ==
    IF status = "error" THEN "Verification error" ELSE "Verification failed"

\* the verdict verify_action returns for a step and the judge's reply
verify_action(step, reply) ==
    IF ~ConsultsJudge(step)
    THEN Verdict(TRUE, "success", FALSE)
    ELSE LET verification_response == SendVerification(reply)
         IN  IF ~verification_response.is_dict
             THEN \* .get on a value that is no dict raises: except Exception
                  Verdict(FALSE, "error", FALSE)
             ELSE IF verification_response.verification_status = "success"
             THEN Verdict(TRUE, "success", FALSE)
             ELSE Verdict(FALSE,
                          IF verification_response.verification_status = "absent"
                          THEN "failure"
                          ELSE verification_response.verification_status,
                          verification_response.requires_reanalysis)

\* the verdicts verify_action can return for a step
PossibleVerdicts ==
    [step \in Steps |-> {verify_action(step, reply) : reply \in JudgeReplies}]

\* send_task_complete(task, completed): the success it reports, given the
\* judgment's completed and the step loop's task_success
ReportedSuccess_bothNeeded(c, steps_ok) == c /\ steps_ok
ReportedSuccess(c, steps_ok) == c

\* if not result.get('success'): ... continue / return, else verify_action: the
\* verifier calls made for an actuator result
VerifierCalls_always(success) == 1
VerifierCalls(success) == IF success THEN 1 ELSE 0

\* break: where the run goes when no recovery plan could be generated
AbortPc_continue == "loop_top"
AbortPc == "finalize"

\* ---------------------------------------------------------------- send_to_llm
\* tokens of response_text
MaxTokens == 4
\* items of an 'actions' list
MaxItems == 2

\* An oracle response as a sequence of tokens: "fence_json", the three backquotes
\* followed by json that open a fenced block, "fence", three backquotes without
\* json, the braces, "x" for any other text, and "[]" for the text
\* of a JSON value that is not an object.  Inside braces "x" and "[]" stand for
\* the text of members.
Tokens == {"fence_json", "fence", "{", "}", "x", "[]"}
Texts == UNION {[1..k -> Tokens] : k \in 0..MaxTokens}

\* the token positions of t that hold one of toks, after position from
Positions(t, toks, from) == {i \in (from + 1)..Len(t) : t[i] \in toks}
Min(S) == CHOOSE i \in S : \A j \in S : i <= j
Max(S) == CHOOSE i \in S : \A j \in S : i >= j

NoMatch == [found |-> FALSE, str |-> << >>]
Match(str) == [found |-> TRUE, str |-> str]

\* group(1) of the first re.search, whose pattern is the fence opener, \s*(.*?)\s*
\* and three backquotes, with re.DOTALL: from the first opener that has three
\* backquotes after it (another opener holds them too) up to the first of them
FencedBlock(t) ==
    LET opens == Positions(t, {"fence_json"}, 0)
    IN  IF opens = {} THEN NoMatch
        ELSE LET closes == Positions(t, {"fence_json", "fence"}, Min(opens))
             IN  IF closes = {} THEN NoMatch
                 ELSE Match(SubSeq(t, Min(opens) + 1, Min(closes) - 1))

\* the position of the "}" that closes the "{" at or after position i, 0 if none
RECURSIVE MatchingBrace(_, _, _)
MatchingBrace(t, i, depth) ==
    IF i > Len(t) THEN 0
    ELSE IF t[i] = "{" THEN MatchingBrace(t, i + 1, depth + 1)
    ELSE IF t[i] = "}" THEN (IF depth = 1 THEN i ELSE MatchingBrace(t, i + 1, depth - 1))
    ELSE MatchingBrace(t, i + 1, depth)
\* the first balanced brace span: from the first "{" that is closed to the "}"
\* that closes it
BraceSpan_balanced(t) ==
    LET opens == {i \in Positions(t, {"{"}, 0) : MatchingBrace(t, i, 0) # 0}
    IN  IF opens = {} THEN NoMatch
        ELSE Match(SubSeq(t, Min(opens), MatchingBrace(t, Min(opens), 0)))

\* re.search(r'\{.*\}', response_text, re.DOTALL).group(): greedy, from the first
\* "{" to the last "}" after it
BraceSpan(t) ==
    LET opens == Positions(t, {"{"}, 0)
    IN  IF opens = {} THEN NoMatch
        ELSE LET closes == Positions(t, {"}"}, Min(opens))
             IN  IF closes = {} THEN NoMatch
                 ELSE Match(SubSeq(t, Min(opens), Max(closes)))

\* json_str, or no match: raise ValueError("No JSON found")
ExtractJson(t) ==
    IF FencedBlock(t).found THEN FencedBlock(t) ELSE BraceSpan(t)

\* str is the text of one JSON object: it opens with "{", which is closed by its
\* last token, and holds no fence
ObjectText(str) ==
    /\ Len(str) >= 2
    /\ str[1] = "{"
    /\ MatchingBrace(str, 1, 0) = Len(str)
    /\ \A i \in 1..Len(str) : str[i] \notin {"fence_json", "fence"}

\* JSON values as far as the validation looks at them: an item of 'actions' is a
\* dict or not and has the keys 'action' and 'description' or not
JsonItems ==
    {[is_dict |-> FALSE, action |-> FALSE, description |-> FALSE]}
        \cup [is_dict : {TRUE}, action : BOOLEAN, description : BOOLEAN]
ItemLists == UNION {[1..k -> JsonItems] : k \in 0..MaxItems}
Value(d, ty, ak, items) ==
    [is_dict |-> d, type |-> ty, actions_kind |-> ak, items |-> items]
\* a value that is not a dict
NonDict == Value(FALSE, "absent", "absent", << >>)
\* dicts: 'type' absent, 'task' or something else; 'actions' absent, not a list,
\* or a list
JsonDicts ==
    {Value(TRUE, ty, "list", items) :
        ty \in {"absent", "task", "question"}, items \in ItemLists}
    \cup {Value(TRUE, ty, ak, << >>) :
        ty \in {"absent", "task", "question"}, ak \in {"absent", "not_list"}}
NoValue == Value(FALSE, "none", "absent", << >>)

\* what send_to_llm returns: the response it let through, or
\* {"status": "error", "actions": []}
Outcome(status, value) == [status |-> status, value |-> value]
ErrorOutcome == Outcome("error", Value(TRUE, "absent", "list", << >>))
NoOutcome == Outcome("none", NoValue)

\* for a in actions: if not isinstance(a, dict) or 'action' not in a or
\* 'description' not in a
ItemMalformed_noDescription(a) == ~a.is_dict \/ ~a.action
ItemMalformed(a) == ~a.is_dict \/ ~a.action \/ ~a.description

\* the checks of send_to_llm on the loaded value, in the code's order
RECURSIVE FirstMalformed(_)
FirstMalformed(items) ==
    IF items = << >> THEN FALSE
    ELSE IF ItemMalformed(Head(items)) THEN TRUE
    ELSE FirstMalformed(Tail(items))
Validate(v) ==
    IF ~v.is_dict \/ v.type = "absent" THEN ErrorOutcome
    ELSE IF v.type = "task" /\ (v.actions_kind # "list" \/ Len(v.items) = 0)
    THEN ErrorOutcome
    ELSE IF v.type = "task" /\ FirstMalformed(v.items) THEN ErrorOutcome
    ELSE Outcome("ok", v)

\* the recovery branch's assignment actions = parsed.get("actions", []), with the
\* step at which it was made; NoRecovery while no such assignment is pending
RecoveryPlan(step, acts) == [pending |-> TRUE, step |-> step, actions |-> acts]
NoRecovery == [pending |-> FALSE, step |-> 0, actions |-> << >>]

\* ---------------------------------------------------------------- initial
\* EnhancedComputerUseAgentBackend.__init__ and EnhancedActionExecutor.__init__
InitEnhanced ==
    /\ held_keys = {}
    /\ e_pc = "idle"
    /\ e_step = 0
    /\ e_actions = << >>
    /\ task_done = FALSE
    /\ step_success = TRUE
    /\ error_count = 0
    /\ e_return = "none"
    /\ recovery_plan = NoRecovery

InitEngine ==
    /\ stop_event = FALSE
    /\ execution_thread = 0
    /\ threads = [t \in 1..MaxRuns |-> "new"]
    /\ last_event = Event("none", "", FALSE)
    /\ pc = "idle"
    /\ actions = << >>
    /\ current_step = 0
    /\ task_success = TRUE
    /\ retry = 0
    /\ ui_context = NoContext
    /\ outcome = "none"
    /\ n_act = 0
    /\ n_verify = 0
    /\ n_judge = 0
    /\ n_recovery = 0
    /\ attempts = 0
    /\ verifies = 0
    /\ recov_here = 0
    /\ all_first = TRUE
    /\ cancel_in_run = FALSE
    /\ stale_cancel = FALSE
    /\ completed = FALSE
    /\ screenshots = FALSE
    /\ task_ui_context = NoTaskContext
    /\ events = << >>

\* no call of send_to_llm is looked into
InitParse ==
    /\ response_text = << >>
    /\ json_str = << >>
    /\ loaded = NoValue
    /\ llm_response = NoOutcome
    /\ s_pc = "idle"

\* no step loop is followed for its messages
InitLog ==
    /\ l_actions = << >>
    /\ l_current = 0
    /\ l_log = << >>
    /\ l_pc = "idle"

\* no focus_window step is looked into
InitFocus ==
    /\ f_pc = "idle"
    /\ f_max_attempts = 0
    /\ f_verify_focus = FALSE
    /\ f_attempt = 0
    /\ f_focus_verified = FALSE
    /\ f_success = FALSE
    /\ f_answers = << >>

\* the Ollama backend waits for a request
InitOllama ==
    /\ o_pc = "idle"
    /\ o_actions = << >>
    /\ o_idx = 0
    /\ o_attempt = 0
    /\ o_log = << >>
    /\ o_message = Msg("none", FALSE)

InitAux ==
    /\ InitFocus
    /\ InitOllama

Init ==
    /\ InitEngine
    /\ InitEnhanced
    /\ pyautogui_available = TRUE
    /\ InitParse
    /\ InitLog
    /\ InitAux

\* ------------------------------------------------ run_frontend_loop (main)
\* request type execute_task
RequestExecuteTask(text) ==
    /\ UNCHANGED <<task_ui_context, enhVars, parseVars, logVars, auxVars>>
    /\ IF ThreadBusy
       THEN /\ last_event' = BusyError
            /\ UNCHANGED <<mainVars, pc, loopVars, callVars, outcome, histVars, cancelVars,
                            finalVars>>
       ELSE /\ stop_event' = ClearedFlag(stop_event)
            /\ IF text # ""
               THEN /\ execution_thread < MaxRuns
                    /\ execution_thread' = execution_thread + 1
                    /\ threads' = [threads EXCEPT ![execution_thread + 1] = "alive"]
                    \* execute_task begins: task_start, action_start, the first
                    \* screenshot and the planning request
                    /\ last_event' = Event("action_start", "task", FALSE)
                    /\ pc' = "planning"
                    /\ actions' = << >>
                    /\ current_step' = 0
                    /\ task_success' = TRUE
                    /\ retry' = 0
                    /\ ui_context' = NoContext
                    /\ outcome' = "none"
                    /\ n_act' = 0
                    /\ n_verify' = 0
                    /\ n_judge' = 0
                    /\ n_recovery' = 0
                    /\ attempts' = 0
                    /\ events' = << >>
                    /\ verifies' = 0
                    /\ recov_here' = 0
                    /\ all_first' = TRUE
                    /\ cancel_in_run' = FALSE
                    /\ stale_cancel' = stop_event
                    /\ completed' = FALSE
                    /\ UNCHANGED screenshots
               ELSE UNCHANGED <<execution_thread, threads, last_event, pc, loopVars,
                                callVars, outcome, histVars, cancelVars, finalVars>>

RequestCancel_interrupts ==
    /\ stop_event' = TRUE
    /\ cancel_in_run' = (cancel_in_run \/ (Running /\ outcome = "none"))
    /\ IF Running /\ outcome = "none"
       THEN /\ outcome' = "Cancelled"
            /\ last_event' = Event("task_complete", "task", FALSE)
            /\ pc' = "exiting"
       ELSE UNCHANGED <<last_event, pc, outcome>>
    /\ UNCHANGED <<execution_thread, threads, loopVars, callVars,
                   histVars, stale_cancel, finalVars>>
    /\ UNCHANGED <<task_ui_context, enhVars, parseVars, logVars, auxVars>>

\* request type cancel_task
RequestCancel ==
    /\ stop_event' = TRUE
    /\ cancel_in_run' = (cancel_in_run \/ (Running /\ outcome = "none"))
    /\ UNCHANGED <<execution_thread, threads, last_event, pc, loopVars, callVars,
                   outcome, histVars, stale_cancel, finalVars>>
    /\ UNCHANGED <<task_ui_context, enhVars, parseVars, logVars, auxVars>>

\* Scenario D: the only cancel_task arrives while the actuator call of step 2 of
\* the five-step plan is in flight
RequestCancelD ==
    /\ Running /\ pc = "exec"
    /\ actions = ScenarioDPlan
    /\ current_step = 1
    /\ ~stop_event
    /\ RequestCancel

\* ----------------------------------------------------------- thread ending
\* the report has been printed; what is left of the run is logging and cleanup
Report(o, ev) ==
    /\ outcome' = o
    /\ last_event' = ev
    /\ pc' = "exiting"

\* execute_task returns and the thread is no longer alive
ThreadExit ==
    /\ Running
    /\ pc = "exiting"
    /\ pc' = "done"
    /\ threads' = [threads EXCEPT ![execution_thread] = "dead"]
    /\ UNCHANGED <<stop_event, execution_thread, last_event, loopVars, callVars,
                   outcome, histVars, cancelVars, finalVars>>
    /\ UNCHANGED <<task_ui_context, enhVars, parseVars, logVars, auxVars>>

\* ------------------------------------------------------------ execute_task
\* take_screenshot returned "" for the first screenshot
PlanScreenshotFail ==
    /\ Running /\ pc = "planning"
    /\ Report("Failed", Event("error", "Cannot capture initial screenshot", FALSE))
    /\ UNCHANGED <<mainVars, loopVars, callVars, histVars, cancelVars, finalVars>>
    /\ UNCHANGED <<task_ui_context, enhVars, parseVars, logVars, auxVars>>

\* send_to_llm returned {"status": "error"}: oracle fault or unparsable output
PlanOracleError ==
    /\ Running /\ pc = "planning"
    /\ Report("Failed", Event("error", "Failed to process request", FALSE))
    /\ screenshots' = FALSE
    /\ UNCHANGED <<mainVars, loopVars, callVars, histVars, cancelVars, completed>>
    /\ UNCHANGED <<task_ui_context, enhVars, parseVars, logVars, auxVars>>

PlanNonTask_sameMessage ==
    /\ Running /\ pc = "planning"
    /\ Report("Rejected", Event("error", "Failed to process request", FALSE))
    /\ screenshots' = FALSE
    /\ UNCHANGED <<mainVars, loopVars, callVars, histVars, cancelVars, completed>>
    /\ UNCHANGED <<task_ui_context, enhVars, parseVars, logVars, auxVars>>

\* the response is well formed and its type is not 'task'
PlanNonTask ==
    /\ Running /\ pc = "planning"
    /\ Report("Rejected", Event("error", "I can only perform actions in Act mode", FALSE))
    /\ screenshots' = FALSE
    /\ UNCHANGED <<mainVars, loopVars, callVars, histVars, cancelVars, completed>>
    /\ UNCHANGED <<task_ui_context, enhVars, parseVars, logVars, auxVars>>

\* a task plan: _execute_task_with_verification starts with its locals
PlanTask(plan) ==
    /\ Running /\ pc = "planning"
    /\ actions' = plan
    /\ current_step' = 0
    /\ task_success' = TRUE
    /\ last_event' = Event("action_start", "task", FALSE)
    /\ pc' = "loop_top"
    /\ screenshots' = TRUE
    /\ UNCHANGED <<mainVars, callVars, outcome, histVars, cancelVars, completed>>
    /\ task_ui_context' = NoTaskContext
    /\ UNCHANGED <<enhVars, parseVars, logVars, auxVars>>

\* ------------------------------------------ _execute_task_with_verification
\* while current_step < len(actions) is false: summary action_complete, final
\* screenshot and the completion request
LoopExit ==
    /\ Running /\ pc = "loop_top"
    /\ ~(current_step < Len(actions))
    /\ last_event' = TaskSummary(task_success)
    /\ pc' = "finalize"
    /\ UNCHANGED <<mainVars, loopVars, callVars, outcome, histVars, cancelVars, finalVars>>
    /\ UNCHANGED <<task_ui_context, enhVars, parseVars, logVars, auxVars>>

CancelObserved_noReturn ==
    /\ Running /\ pc = "loop_top"
    /\ current_step < Len(actions)
    /\ StopObserved
    /\ n_act < MaxCalls
    /\ outcome' = "Cancelled"
    /\ last_event' = Event("task_complete", "task", FALSE)
    /\ retry' = 0
    /\ ui_context' = NoContext
    /\ attempts' = 1
    /\ verifies' = 0
    /\ n_act' = n_act + 1
    /\ pc' = "exec"
    /\ UNCHANGED <<mainVars, loopVars, n_verify, n_judge, n_recovery, recov_here, all_first,
                   cancelVars, finalVars, events>>
    /\ UNCHANGED <<task_ui_context, enhVars, parseVars, logVars, auxVars>>

\* if self.stop_event.is_set(): report and return
CancelObserved ==
    /\ Running /\ pc = "loop_top"
    /\ current_step < Len(actions)
    /\ StopObserved
    /\ Report("Cancelled", Event("task_complete", "task", FALSE))
    /\ UNCHANGED <<mainVars, loopVars, callVars, histVars, cancelVars, finalVars>>
    /\ UNCHANGED <<task_ui_context, enhVars, parseVars, logVars, auxVars>>

\* send_action_start, then the call execute_action(action) of the step's own
\* operation is made
StartAttempt ==
    /\ n_act < MaxCalls
    /\ last_event' = Event("action_start", "step", FALSE)
    /\ attempts' = attempts + 1
    /\ n_act' = n_act + 1
    /\ pc' = "exec"

\* action_step, then execute_action_with_verification up to its first actuator call
StepBegin ==
    /\ Running /\ pc = "loop_top"
    /\ current_step < Len(actions)
    /\ ~StopObserved
    /\ n_act < MaxCalls
    /\ retry' = FirstRetry(recov_here)
    /\ ui_context' = NoContext
    /\ last_event' = Event("action_start", "step", FALSE)
    /\ attempts' = 1
    /\ verifies' = 0
    /\ events' = StepStart \o AttemptStart
    /\ n_act' = n_act + 1
    /\ pc' = "exec"
    /\ UNCHANGED <<mainVars, loopVars, outcome, n_verify, n_judge, n_recovery, recov_here,
                   all_first, cancelVars, finalVars>>
    /\ UNCHANGED <<task_ui_context, enhVars, parseVars, logVars, auxVars>>

\* the next iteration of `for retry in range(max_retries)` with context ctx: the
\* discovery call if ctx asks for it, else the next attempt
\* details: the message of the failed attempt's action_complete
NextAttempt(ctx, details) ==
    /\ retry' = retry + 1
    /\ events' = events \o AttemptEnd(FALSE)
                    \o (IF ctx.requires_reanalysis THEN << >> ELSE AttemptStart)
    /\ IF ctx.requires_reanalysis
       THEN /\ pc' = "reanalysis"
            /\ last_event' = Event("action_complete", details, FALSE)
            /\ UNCHANGED <<attempts, n_act>>
       ELSE StartAttempt
    /\ UNCHANGED <<loopVars, n_recovery, recov_here>>

\* the call returned a failure to the step loop: task_success = False, a fresh
\* screenshot, and the recovery request is sent
StepFailed(details) ==
    /\ task_success' = FALSE
    /\ n_recovery' = n_recovery + 1
    /\ recov_here' = recov_here + 1
    /\ last_event' = Event("action_complete", details, FALSE)
    /\ pc' = "recovery"
    /\ events' = events \o AttemptEnd(FALSE)
    /\ UNCHANGED <<actions, current_step, retry, attempts, n_act>>

\* execute_action(action) returned success = False
ActuatorFail ==
    /\ Running /\ pc = "exec"
    /\ FALSE \in PossibleSuccess
    /\ all_first' = FALSE
    /\ n_verify' = n_verify + VerifierCalls(FALSE)
    /\ verifies' = verifies + VerifierCalls(FALSE)
    /\ IF HasRetriesLeft(retry) THEN NextAttempt(ui_context, "step") ELSE StepFailed("step")
    /\ UNCHANGED <<mainVars, ui_context, outcome, n_judge, cancelVars, finalVars>>
    /\ UNCHANGED <<task_ui_context, enhVars, parseVars, logVars, auxVars>>

\* execute_action(action) returned success = True: settle, then verify_action
ActuatorOk ==
    /\ Running /\ pc = "exec"
    /\ TRUE \in PossibleSuccess
    /\ n_verify' = n_verify + VerifierCalls(TRUE)
    /\ n_judge' = IF ConsultsJudge(actions[current_step + 1]) THEN n_judge + 1 ELSE n_judge
    /\ verifies' = verifies + VerifierCalls(TRUE)
    /\ pc' = "verify"
    /\ UNCHANGED <<mainVars, last_event, loopVars, retry, ui_context, attempts, events, outcome,
                   n_act, n_recovery, recov_here, all_first, cancelVars, finalVars>>
    /\ UNCHANGED <<task_ui_context, enhVars, parseVars, logVars, auxVars>>

\* verify_action returned verified = True: the step loop stores the result of a
\* step that is itself an analyze_ui and advances
VerifyOk ==
    /\ Running /\ pc = "verify"
    /\ Verdict(TRUE, "success", FALSE) \in PossibleVerdicts[actions[current_step + 1]]
    /\ last_event' = Event("action_complete", "step", TRUE)
    /\ current_step' = StepAdvance(current_step)
    /\ recov_here' = 0
    /\ pc' = "loop_top"
    /\ events' = events \o AttemptEnd(TRUE)
    /\ UNCHANGED <<mainVars, actions, task_success, retry, ui_context, attempts, verifies,
                   outcome, n_act,
                   n_verify, n_judge, n_recovery, all_first, cancelVars, finalVars>>
    /\ task_ui_context' \in StoredAnalysis(task_ui_context)
    /\ UNCHANGED <<enhVars, parseVars, logVars, auxVars>>

\* verify_action returned verified = False with this status and requires_reanalysis;
\* only a step that declares a verification can get such a verdict.
\* ui_context = verification.get('details', {})
VerifyFailed(status, reanalysis) ==
    /\ Running /\ pc = "verify"
    /\ Verdict(FALSE, status, reanalysis) \in PossibleVerdicts[actions[current_step + 1]]
    /\ all_first' = FALSE
    /\ ui_context' = [requires_reanalysis |-> reanalysis, ui_elements |-> "absent"]
    /\ IF HasRetriesLeft(retry)
       THEN NextAttempt(ui_context', VerdictMessage(status))
       ELSE StepFailed(VerdictMessage(status))
    /\ UNCHANGED <<mainVars, verifies, outcome, n_verify, n_judge, cancelVars, finalVars>>
    /\ UNCHANGED <<task_ui_context, enhVars, parseVars, logVars, auxVars>>

\* reanalysis_result = self.execute_action(reanalysis_action) returned: ui_elements
\* are stored if it reports success and holds some
ReanalysisReturn ==
    /\ Running /\ pc = "reanalysis"
    /\ \E reanalysis_result \in AnalyzeUiResults :
            ui_context' = Refreshed(ui_context, reanalysis_result)
    /\ StartAttempt
    /\ events' = events \o AttemptStart
    /\ UNCHANGED <<mainVars, loopVars, retry, verifies, outcome, n_verify, n_judge,
                   n_recovery, recov_here, all_first, cancelVars, finalVars>>
    /\ UNCHANGED <<task_ui_context, enhVars, parseVars, logVars, auxVars>>

RecoveryTask_resets(plan) ==
    /\ Running /\ pc = "recovery"
    /\ actions' = ReplacePlan(actions, current_step, plan)
    /\ task_success' = TRUE
    /\ pc' = "loop_top"
    /\ UNCHANGED <<mainVars, last_event, current_step, callVars,
                   outcome, histVars, cancelVars, finalVars>>
    /\ UNCHANGED <<task_ui_context, enhVars, parseVars, logVars, auxVars>>

\* the recovery response is a task: the plan is replaced from current_step on
RecoveryTask(plan) ==
    /\ Running /\ pc = "recovery"
    /\ actions' = ReplacePlan(actions, current_step, plan)
    /\ pc' = "loop_top"
    /\ UNCHANGED <<mainVars, last_event, current_step, task_success, callVars,
                   outcome, histVars, cancelVars, finalVars>>
    /\ UNCHANGED <<task_ui_context, enhVars, parseVars, logVars, auxVars>>

\* the recovery response is an error or not a task: break, then the summary
\* action_complete, the final screenshot and the completion request
RecoveryFail ==
    /\ Running /\ pc = "recovery"
    /\ last_event' = TaskSummary(task_success)
    /\ pc' = AbortPc
    /\ UNCHANGED <<mainVars, loopVars, callVars, outcome, histVars, cancelVars, finalVars>>
    /\ UNCHANGED <<task_ui_context, enhVars, parseVars, logVars, auxVars>>

\* the completion judgment: send_to_llm returned {"status": "error"}
JudgeError ==
    /\ Running /\ pc = "finalize"
    /\ completed' = FALSE
    /\ Report("Failed", Event("task_complete", "task", ReportedSuccess(FALSE, task_success)))
    /\ screenshots' = FALSE
    /\ UNCHANGED <<mainVars, loopVars, callVars, histVars, cancelVars>>
    /\ UNCHANGED <<task_ui_context, enhVars, parseVars, logVars, auxVars>>

\* the completion judgment parsed: task_complete carries its 'completed'
Judged(c) ==
    /\ Running /\ pc = "finalize"
    /\ completed' = c
    /\ Report(IF ReportedSuccess(c, task_success) THEN "Succeeded" ELSE "Failed",
              Event("task_complete", "task", ReportedSuccess(c, task_success)))
    /\ screenshots' = FALSE
    /\ UNCHANGED <<mainVars, loopVars, callVars, histVars, cancelVars>>
    /\ UNCHANGED <<task_ui_context, enhVars, parseVars, logVars, auxVars>>

\* the judgment's 'status' is not a string: status.upper() raises before
\* task_complete is sent and the thread dies with the exception
JudgeMalformed ==
    /\ Running /\ pc = "finalize"
    /\ outcome' = "Crashed"
    /\ pc' = "done"
    /\ threads' = [threads EXCEPT ![execution_thread] = "dead"]
    /\ completed' \in BOOLEAN
    /\ UNCHANGED <<stop_event, execution_thread, last_event, loopVars, callVars,
                   histVars, cancelVars, screenshots>>
    /\ UNCHANGED <<task_ui_context, enhVars, parseVars, logVars, auxVars>>

\* ------------------------------------------------------------ specification
Worker ==
    \/ PlanScreenshotFail
    \/ PlanOracleError
    \/ PlanNonTask
    \/ \E plan \in PlanningPlans : PlanTask(plan)
    \/ LoopExit
    \/ CancelObserved
    \/ StepBegin
    \/ ActuatorFail
    \/ ActuatorOk
    \/ VerifyOk
    \/ \E status \in FailedStatuses, reanalysis \in BOOLEAN : VerifyFailed(status, reanalysis)
    \/ ReanalysisReturn
    \/ \E plan \in RecoveryPlans : RecoveryTask(plan)
    \/ RecoveryFail
    \/ JudgeError
    \/ \E c \in BOOLEAN : Judged(c)
    \/ JudgeMalformed
    \/ ThreadExit

Next ==
    \/ \E text \in TaskTexts : RequestExecuteTask(text)
    \/ RequestCancel
    \/ Worker

Spec == Init /\ [][Next]_vars

\* the engine under Scenario D's frontend: cancel_task is sent only as RequestCancelD
NextD ==
    \/ \E text \in TaskTexts : RequestExecuteTask(text)
    \/ RequestCancelD
    \/ Worker

SpecD == Init /\ [][NextD]_vars

\* the engine in Scenario B's environment: the oracle plans one step that declares
\* a verification; every actuator call succeeds; the verifier fails that step (no
\* verdict asks for reanalysis) until the replan and verifies every step after
\* it; the recovery oracle answers with a plan of two steps
PlanTaskB == PlanTask(<<[verification |-> TRUE]>>)
VerifyFailedB(status) == n_recovery = 0 /\ VerifyFailed(status, FALSE)
VerifyOkB == n_recovery = 1 /\ VerifyOk
RecoveryTaskB(plan) == Len(plan) = 2 /\ RecoveryTask(plan)

NextB ==
    \/ \E text \in TaskTexts : RequestExecuteTask(text)
    \/ PlanTaskB
    \/ StepBegin
    \/ ActuatorOk
    \/ \E status \in FailedStatuses : VerifyFailedB(status)
    \/ VerifyOkB
    \/ \E plan \in RecoveryPlans : RecoveryTaskB(plan)
    \/ LoopExit
    \/ JudgeError
    \/ \E c \in BOOLEAN : Judged(c)
    \/ JudgeMalformed
    \/ ThreadExit

SpecB == Init /\ [][NextB]_vars

\* ------------------------------------------- the engine without its histories
\* The same handlers with the run's call counts left alone, so that a run that goes
\* round the step loop again comes back to a state it has been in.
T_StartAttempt ==
    /\ last_event' = Event("action_start", "step", FALSE)
    /\ attempts' = attempts + 1
    /\ pc' = "exec"

\* action_step, then execute_action_with_verification up to its first actuator call
T_StepBegin ==
    /\ Running /\ pc = "loop_top"
    /\ current_step < Len(actions)
    /\ ~StopObserved
    /\ retry' = FirstRetry(recov_here)
    /\ ui_context' = NoContext
    /\ last_event' = Event("action_start", "step", FALSE)
    /\ attempts' = 1
    /\ verifies' = 0
    /\ events' = StepStart \o AttemptStart
    /\ pc' = "exec"
    /\ UNCHANGED <<mainVars, loopVars, outcome, histVars, cancelVars, finalVars>>
    /\ UNCHANGED <<task_ui_context, enhVars, parseVars, logVars, auxVars>>

\* the next iteration of `for retry in range(max_retries)` with context ctx
T_NextAttempt(ctx, details) ==
    /\ retry' = retry + 1
    /\ events' = events \o AttemptEnd(FALSE)
                    \o (IF ctx.requires_reanalysis THEN << >> ELSE AttemptStart)
    /\ IF ctx.requires_reanalysis
       THEN /\ pc' = "reanalysis"
            /\ last_event' = Event("action_complete", details, FALSE)
            /\ UNCHANGED attempts
       ELSE T_StartAttempt
    /\ UNCHANGED loopVars

\* the call returned a failure to the step loop: task_success = False, a fresh
\* screenshot, and the recovery request is sent
T_StepFailed(details) ==
    /\ task_success' = FALSE
    /\ last_event' = Event("action_complete", details, FALSE)
    /\ pc' = "recovery"
    /\ events' = events \o AttemptEnd(FALSE)
    /\ UNCHANGED <<actions, current_step, retry, attempts>>

\* execute_action(action) returned success = False
T_ActuatorFail ==
    /\ Running /\ pc = "exec"
    /\ FALSE \in PossibleSuccess
    /\ all_first' = FALSE
    /\ verifies' = verifies + VerifierCalls(FALSE)
    /\ IF HasRetriesLeft(retry)
       THEN T_NextAttempt(ui_context, "step")
       ELSE T_StepFailed("step")
    /\ UNCHANGED <<mainVars, ui_context, outcome, n_act, n_verify, n_judge, n_recovery,
                   recov_here, cancelVars, finalVars>>
    /\ UNCHANGED <<task_ui_context, enhVars, parseVars, logVars, auxVars>>

\* execute_action(action) returned success = True: settle, then verify_action
T_ActuatorOk ==
    /\ Running /\ pc = "exec"
    /\ TRUE \in PossibleSuccess
    /\ verifies' = verifies + VerifierCalls(TRUE)
    /\ pc' = "verify"
    /\ UNCHANGED <<mainVars, last_event, loopVars, retry, ui_context, attempts, events, outcome,
                   histVars, cancelVars, finalVars>>
    /\ UNCHANGED <<task_ui_context, enhVars, parseVars, logVars, auxVars>>

\* verify_action returned verified = False with this status and requires_reanalysis
T_VerifyFailed(status, reanalysis) ==
    /\ Running /\ pc = "verify"
    /\ Verdict(FALSE, status, reanalysis) \in PossibleVerdicts[actions[current_step + 1]]
    /\ all_first' = FALSE
    /\ ui_context' = [requires_reanalysis |-> reanalysis, ui_elements |-> "absent"]
    /\ IF HasRetriesLeft(retry)
       THEN T_NextAttempt(ui_context', VerdictMessage(status))
       ELSE T_StepFailed(VerdictMessage(status))
    /\ UNCHANGED <<mainVars, verifies, outcome, n_act, n_verify, n_judge, n_recovery,
                   recov_here, cancelVars, finalVars>>
    /\ UNCHANGED <<task_ui_context, enhVars, parseVars, logVars, auxVars>>

\* reanalysis_result = self.execute_action(reanalysis_action) returned
T_ReanalysisReturn ==
    /\ Running /\ pc = "reanalysis"
    /\ \E reanalysis_result \in AnalyzeUiResults :
            ui_context' = Refreshed(ui_context, reanalysis_result)
    /\ T_StartAttempt
    /\ events' = events \o AttemptStart
    /\ UNCHANGED <<mainVars, loopVars, retry, verifies, outcome, histVars, cancelVars,
                   finalVars>>
    /\ UNCHANGED <<task_ui_context, enhVars, parseVars, logVars, auxVars>>

\* steps of a run's plan, replacements included
MaxSteps == 3

\* the recovery response is a task: the plan is replaced from current_step on
T_RecoveryTask(plan) ==
    /\ current_step + Len(plan) <= MaxSteps
    /\ RecoveryTask(plan)

WorkerT ==
    \/ PlanScreenshotFail
    \/ PlanOracleError
    \/ PlanNonTask
    \/ \E plan \in PlanningPlans : PlanTask(plan)
    \/ LoopExit
    \/ T_StepBegin
    \/ T_ActuatorFail
    \/ T_ActuatorOk
    \/ VerifyOk
    \/ \E status \in FailedStatuses, reanalysis \in BOOLEAN : T_VerifyFailed(status, reanalysis)
    \/ T_ReanalysisReturn
    \/ \E plan \in RecoveryPlans : T_RecoveryTask(plan)
    \/ RecoveryFail
    \/ JudgeError
    \/ \E c \in BOOLEAN : Judged(c)
    \/ JudgeMalformed
    \/ ThreadExit

\* no cancel_task request is ever sent
NextT ==
    \/ \E text \in TaskTexts : RequestExecuteTask(text)
    \/ WorkerT

\* the execution thread is scheduled as long as it has a step to take: every
\* external call returns
SpecT == Init /\ [][NextT]_vars /\ WF_vars(WorkerT)

\* ------------------------------- enhanced_act_backend.py: execute_task
\* actions of one step (parsed Thought/Action response)
MaxActions == 2
\* failed actions of one run
MaxErrors == 4
\* max_steps = 50
max_steps == 50

Keys == {"shift", "ctrl"}
Act(name, key) == [name |-> name, key |-> key]
\* action strings parse_and_execute_action dispatches on
EnhancedActions ==
    {Act(n, k) : n \in {"press", "release"}, k \in Keys}
        \cup {Act(n, "") : n \in {"finished", "call_user", "click", "unknown"}}

\* what the recovery prompt asks for, "a new Thought and Action": one action, or none
RecoveryLists == {<<a>> : a \in EnhancedActions} \cup {<< >>}

\* release_all_keys: the set of held keys it leaves
release_all_keys(held) == IF ~pyautogui_available THEN held ELSE {}

\* run_frontend_loop calls execute_task(text, attachments)
E_ExecuteTask ==
    /\ e_pc = "idle"
    /\ e_pc' = "first_screenshot"
    /\ e_step' = 0
    /\ e_actions' = << >>
    /\ task_done' = FALSE
    /\ step_success' = TRUE
    /\ error_count' = 0
    /\ e_return' = "none"
    /\ recovery_plan' = NoRecovery
    /\ UNCHANGED <<pyautogui_available, held_keys, engineVars, parseVars, logVars, auxVars>>

\* an exception inside the try block: except Exception sends the error, finally
\* cleans the screenshots, execute_task returns
E_Except ==
    /\ e_pc' = "idle"
    /\ e_return' = "except"
    /\ recovery_plan' = NoRecovery
    /\ UNCHANGED <<pyautogui_available, held_keys, e_step, e_actions, task_done,
                   step_success, error_count, engineVars, parseVars, logVars, auxVars>>

\* the end of the try block: summary, task_complete, final response and
\* self.executor.release_all_keys()
E_Final ==
    /\ e_pc = "final"
    /\ held_keys' = release_all_keys(held_keys)
    /\ e_pc' = "idle"
    /\ e_return' = "final"
    /\ recovery_plan' = NoRecovery
    /\ UNCHANGED <<pyautogui_available, e_step, e_actions, task_done, step_success,
                   error_count, engineVars, parseVars, logVars, auxVars>>

\* take_screenshot, which has no try of its own: it returns or raises
E_Screenshot(ok) ==
    /\ e_pc \in {"first_screenshot", "screenshot"}
    /\ IF ~ok THEN E_Except
       ELSE /\ e_pc' = IF e_pc = "first_screenshot" THEN "loop"
                       ELSE IF task_done THEN "final"
                       ELSE IF ~step_success /\ error_count < 3 THEN "recovery"
                       ELSE "loop"
            /\ UNCHANGED <<pyautogui_available, held_keys, e_step, e_actions, task_done,
                           step_success, error_count, e_return,
                   recovery_plan, engineVars, parseVars, logVars, auxVars>>

\* while step < max_steps and self.running: step += 1, prompt, send_to_llm
E_LoopTop ==
    /\ e_pc = "loop"
    /\ IF e_step < max_steps
       THEN e_step' = e_step + 1 /\ e_pc' = "llm"
       ELSE e_step' = e_step /\ e_pc' = "final"
    /\ UNCHANGED <<pyautogui_available, held_keys, e_actions, task_done, step_success,
                   error_count, e_return,
                   recovery_plan, engineVars, parseVars, logVars, auxVars>>

\* send_to_llm failed or the response did not parse: break
E_OracleFail ==
    /\ e_pc = "llm"
    /\ e_pc' = "final"
    /\ UNCHANGED <<pyautogui_available, held_keys, e_step, e_actions, task_done,
                   step_success, error_count, e_return,
                   recovery_plan, engineVars, parseVars, logVars, auxVars>>

\* a parsed Thought with its actions: step_success = True, for action in actions
E_Parsed(acts) ==
    /\ e_pc = "llm"
    /\ e_actions' = acts
    /\ recovery_plan' = NoRecovery
    /\ step_success' = TRUE
    /\ e_pc' = "for"
    /\ UNCHANGED <<pyautogui_available, held_keys, e_step, task_done, error_count,
                   e_return, engineVars, parseVars, logVars, auxVars>>

\* the for loop is over: sleep, then the screenshot after the actions
E_ForDone ==
    /\ e_pc = "for"
    /\ e_actions = << >>
    /\ e_pc' = "screenshot"
    /\ UNCHANGED <<pyautogui_available, held_keys, e_step, e_actions, task_done,
                   step_success, error_count, e_return,
                   recovery_plan, engineVars, parseVars, logVars, auxVars>>

\* parse_and_execute_action on the next action; ok: the pyautogui call went through
E_Action(ok) ==
    /\ e_pc = "for"
    /\ e_actions # << >>
    /\ LET a == Head(e_actions)
           success == /\ a.name # "unknown"
                      /\ a.name \in {"press", "release", "click"}
                            => (pyautogui_available /\ ok)
       IN  /\ held_keys' = IF success /\ a.name = "press" THEN held_keys \cup {a.key}
                           ELSE IF success /\ a.name = "release" THEN held_keys \ {a.key}
                           ELSE held_keys
           /\ task_done' = (task_done \/ a.name = "finished")
           \* break leaves the rest of the actions unexecuted
           /\ IF a.name \in {"finished", "call_user"}
              THEN /\ e_pc' = "screenshot"
                   /\ e_actions' = << >>
                   /\ UNCHANGED <<step_success, error_count>>
              ELSE IF ~success
              THEN /\ error_count < MaxErrors
                   /\ step_success' = FALSE
                   /\ error_count' = error_count + 1
                   /\ e_pc' = "screenshot"
                   /\ e_actions' = << >>
              ELSE /\ e_actions' = Tail(e_actions)
                   /\ e_pc' = "for"
                   /\ UNCHANGED <<step_success, error_count>>
    /\ UNCHANGED <<pyautogui_available, e_step, e_return,
                   recovery_plan, engineVars, parseVars, logVars, auxVars>>

\* a recovery request that failed or did not parse: time.sleep(0.3), next iteration
E_RecoveryFail ==
    /\ e_pc = "recovery"
    /\ e_pc' = "loop"
    /\ UNCHANGED <<pyautogui_available, held_keys, e_step, e_actions, task_done,
                   step_success, error_count, e_return,
                   recovery_plan, engineVars, parseVars, logVars, auxVars>>

\* a recovery response that parsed: actions = parsed.get("actions", []), continue,
\* which is the next iteration of the while loop
E_Recovery(acts) ==
    /\ e_pc = "recovery"
    /\ recovery_plan' = RecoveryPlan(e_step, acts)
    /\ e_pc' = "loop"
    /\ UNCHANGED <<pyautogui_available, held_keys, e_step, e_actions, task_done,
                   step_success, error_count, e_return, engineVars, parseVars, logVars, auxVars>>

NextE ==
    \/ E_ExecuteTask
    \/ \E ok \in BOOLEAN : E_Screenshot(ok)
    \/ E_LoopTop
    \/ E_OracleFail
    \/ \E acts \in SeqsUpTo(EnhancedActions, MaxActions) \cup {<< >>} : E_Parsed(acts)
    \/ E_ForDone
    \/ \E ok \in BOOLEAN : E_Action(ok)
    \/ E_RecoveryFail
    \/ \E acts \in RecoveryLists : E_Recovery(acts)
    \/ E_Final

InitE ==
    /\ InitEngine
    /\ InitEnhanced
    /\ pyautogui_available \in BOOLEAN
    /\ InitParse
    /\ InitLog
    /\ InitAux

SpecE == InitE /\ [][NextE]_vars

\* ----------------------------------------------- act_backend.py: send_to_llm
\* except Exception: return {"status": "error", "actions": []}
S_Except ==
    /\ llm_response' = ErrorOutcome
    /\ s_pc' = "returned"

\* self.model.generate_content(content_parts) returns the response, or raises
S_Generate(ok) ==
    /\ s_pc = "generate"
    /\ IF ok THEN s_pc' = "extract" /\ UNCHANGED llm_response ELSE S_Except
    /\ UNCHANGED <<response_text, json_str, loaded, engineVars, enhVars, logVars, auxVars>>

\* the two searches for json_str
S_Extract ==
    /\ s_pc = "extract"
    /\ IF ExtractJson(response_text).found
       THEN /\ json_str' = ExtractJson(response_text).str
            /\ s_pc' = "loads"
            /\ UNCHANGED llm_response
       ELSE /\ S_Except
            /\ UNCHANGED json_str
    /\ UNCHANGED <<response_text, loaded, engineVars, enhVars, logVars, auxVars>>

\* json.loads(json_str) raises
S_LoadsFail ==
    /\ s_pc = "loads"
    /\ ~ObjectText(json_str) /\ json_str # <<"[]">>
    /\ S_Except
    /\ UNCHANGED <<response_text, json_str, loaded, engineVars, enhVars, logVars, auxVars>>

\* json.loads(json_str) returns the value the text denotes
S_Loads(v) ==
    /\ s_pc = "loads"
    /\ IF ObjectText(json_str) THEN v \in JsonDicts
       ELSE json_str = <<"[]">> /\ v = NonDict
    /\ loaded' = v
    /\ s_pc' = "validate"
    /\ UNCHANGED <<response_text, json_str, llm_response, engineVars, enhVars, logVars, auxVars>>

\* the checks on llm_response and the return
S_Validate ==
    /\ s_pc = "validate"
    /\ llm_response' = Validate(loaded)
    /\ s_pc' = "returned"
    /\ UNCHANGED <<response_text, json_str, loaded, engineVars, enhVars, logVars, auxVars>>

NextS ==
    \/ \E ok \in BOOLEAN : S_Generate(ok)
    \/ S_Extract
    \/ S_LoadsFail
    \/ \E v \in JsonDicts \cup {NonDict} : S_Loads(v)
    \/ S_Validate

\* one call of send_to_llm with a model configured, on any response text
InitS ==
    /\ InitEngine
    /\ InitEnhanced
    /\ pyautogui_available = TRUE
    /\ response_text \in Texts
    /\ json_str = << >>
    /\ loaded = NoValue
    /\ llm_response = NoOutcome
    /\ s_pc = "generate"
    /\ InitLog
    /\ InitAux

SpecS == InitS /\ [][NextS]_vars

\* ------------------------- act_backend.py: the step loop's action_step messages
\* action_step messages of one run
MaxEvents == 3

\* steps as send_to_llm lets them through, with what the messages are made of:
\* two steps that differ in their parameter maps ("p1", "p2") only, and a third
FullStep(d, a, ps) == [description |-> d, action |-> a, parameters |-> ps]
FullSteps == {FullStep("d1", "click", "p1"), FullStep("d1", "click", "p2"),
              FullStep("d2", "type", "p1")}
FullPlans == SeqsUpTo(FullSteps, MaxPlanLen)

\* send_message("action_step", {...}): the data of the message
ActionStep_zeroBased(step_num, total, action) ==
    [step |-> step_num - 1, total_steps |-> total, description |-> action.description,
     action_type |-> action.action]
ActionStep(step_num, total, action) ==
    [step |-> step_num, total_steps |-> total, description |-> action.description,
     action_type |-> action.action]

\* the message for the step at current_step, then execute_action_with_verification
L_ActionStep ==
    /\ l_pc = "loop_top"
    /\ l_current < Len(l_actions)
    /\ Len(l_log) < MaxEvents
    /\ l_log' = Append(l_log, ActionStep(l_current + 1, Len(l_actions),
                                          l_actions[l_current + 1]))
    /\ l_pc' = "call"
    /\ UNCHANGED <<l_actions, l_current, engineVars, enhVars, parseVars, auxVars>>

\* the call succeeded: current_step += 1
L_Advance ==
    /\ l_pc = "call"
    /\ l_current' = StepAdvance(l_current)
    /\ l_pc' = "loop_top"
    /\ UNCHANGED <<l_actions, l_log, engineVars, enhVars, parseVars, auxVars>>

\* the call failed and the recovery response is a task
L_Replan(plan) ==
    /\ l_pc = "call"
    /\ l_actions' = ReplacePlan(l_actions, l_current, plan)
    /\ l_pc' = "loop_top"
    /\ UNCHANGED <<l_current, l_log, engineVars, enhVars, parseVars, auxVars>>

\* the loop ends: its condition is false, the cancel flag was seen (return), or
\* no recovery plan came (break)
L_End ==
    /\ l_pc \in {"loop_top", "call"}
    /\ l_pc' = "end"
    /\ UNCHANGED <<l_actions, l_current, l_log, engineVars, enhVars, parseVars, auxVars>>

NextL ==
    \/ L_ActionStep
    \/ L_Advance
    \/ \E plan \in FullPlans : L_Replan(plan)
    \/ L_End

\* _execute_task_with_verification is entered with any plan
InitL ==
    /\ InitEngine
    /\ InitEnhanced
    /\ pyautogui_available = TRUE
    /\ InitParse
    /\ l_actions \in FullPlans
    /\ l_current = 0
    /\ l_log = << >>
    /\ l_pc = "loop_top"
    /\ InitAux

SpecL == InitL /\ [][NextL]_vars

\* ------------------------------------------- execute_action: focus_window
\* max_attempts of a focus_window step
MaxFocusAttempts == 3

\* What the focus judge's text holds, as send_to_llm sees it: the JSON object the
\* focus prompt asks for (window_in_focus, window_name, reason: no 'type'), the same
\* object with a 'type' the prompt did not ask for, or no JSON object at all (the
\* call raised, no JSON, a value that is not an object)
RequestedShape == Value(TRUE, "absent", "absent", << >>)
TypedShape == Value(TRUE, "question", "absent", << >>)
FocusAnswers == [value : {RequestedShape, TypedShape, NonDict}, window_in_focus : BOOLEAN]

\* verification = self.send_to_llm(...); verification.get('window_in_focus', False):
\* send_to_llm hands the object on only if its checks let it through, else its
\* error dictionary, which has no window_in_focus
WindowInFocus(ans) == Validate(ans.value).status = "ok" /\ ans.window_in_focus

\* a focus_window step reaches its branch with GUI_AVAILABLE and pyautogui
InitF ==
    /\ InitEngine
    /\ InitEnhanced
    /\ pyautogui_available = TRUE
    /\ InitParse
    /\ InitLog
    /\ f_pc = "loop"
    /\ f_max_attempts \in 1..MaxFocusAttempts
    /\ f_verify_focus \in BOOLEAN
    /\ f_attempt = 0
    /\ f_focus_verified = FALSE
    /\ f_success = FALSE
    /\ f_answers = << >>
    /\ InitOllama

\* while attempt < max_attempts and not focus_verified: attempt += 1, the focus
\* method, take_screenshot; without verify_focus the attempt counts as focused
F_Attempt ==
    /\ f_pc = "loop"
    /\ f_attempt < f_max_attempts /\ ~f_focus_verified
    /\ f_attempt' = f_attempt + 1
    /\ IF f_verify_focus
       THEN /\ f_pc' = "judge"
            /\ UNCHANGED <<f_focus_verified, f_success>>
       ELSE /\ f_focus_verified' = TRUE
            /\ f_success' = TRUE
            /\ f_pc' = "done"
    /\ UNCHANGED <<f_max_attempts, f_verify_focus, f_answers>>
    /\ UNCHANGED <<engineVars, enhVars, parseVars, logVars, ollamaVars>>

\* a pyautogui or subprocess call of the attempt raises: except Exception of
\* execute_action, result["success"] stays as it is
F_Raise ==
    /\ f_pc = "loop"
    /\ f_attempt < f_max_attempts /\ ~f_focus_verified
    /\ f_attempt' = f_attempt + 1
    /\ f_pc' = "done"
    /\ UNCHANGED <<f_max_attempts, f_verify_focus, f_focus_verified, f_success, f_answers>>
    /\ UNCHANGED <<engineVars, enhVars, parseVars, logVars, ollamaVars>>

\* the judge's answer to the focus prompt has come back through send_to_llm
F_Answer(ans) ==
    /\ f_pc = "judge"
    /\ f_answers' = Append(f_answers, ans)
    /\ IF WindowInFocus(ans)
       THEN /\ f_focus_verified' = TRUE
            /\ f_success' = TRUE
            /\ f_pc' = "done"
       ELSE /\ f_pc' = "loop"
            /\ UNCHANGED <<f_focus_verified, f_success>>
    /\ UNCHANGED <<f_max_attempts, f_verify_focus, f_attempt>>
    /\ UNCHANGED <<engineVars, enhVars, parseVars, logVars, ollamaVars>>

\* the while condition fails: if not focus_verified: result["success"] = False
F_LoopEnd ==
    /\ f_pc = "loop"
    /\ ~(f_attempt < f_max_attempts /\ ~f_focus_verified)
    /\ f_success' = IF ~f_focus_verified THEN FALSE ELSE f_success
    /\ f_pc' = "failed"
    /\ UNCHANGED <<f_max_attempts, f_verify_focus, f_attempt, f_focus_verified, f_answers>>
    /\ UNCHANGED <<engineVars, enhVars, parseVars, logVars, ollamaVars>>

NextF ==
    \/ F_Attempt
    \/ F_Raise
    \/ \E ans \in FocusAnswers : F_Answer(ans)
    \/ F_LoopEnd

SpecF == InitF /\ [][NextF]_vars

\* ------------------------------------------- Ollama backend: execute_task
\* length of a plan of the Ollama backend
MaxOllamaPlan == 2

\* self.max_action_retries of the Ollama backend
ollama_max_action_retries == 3

\* an action of the plan, as far as the step loop reads it: whether it carries
\* a non-empty 'verification'
OllamaActions == [verification : BOOLEAN]

\* what call_ollama_api makes of the planning answer: its error dictionary, an
\* object of another type than 'task', or a task with a non-empty list of actions
OllamaPlans ==
    {[status |-> "error", type |-> "none", actions |-> << >>],
     [status |-> "ok", type |-> "question", actions |-> << >>]}
    \cup {[status |-> "ok", type |-> "task", actions |-> acts] :
              acts \in SeqsUpTo(OllamaActions, MaxOllamaPlan)}

\* what the judge's text holds when verify_action asks: an object with or without
\* a 'type' (the verification prompt asks for none), and its verification_status
OllamaAnswers ==
    [has_type : BOOLEAN, verification_status : {"success", "failure", "partial"}]

\* call_ollama_api on the judge's answer: an object without 'type' becomes the
\* error dictionary, which has no verification_status
OllamaApiStatus(ans) == IF ans.has_type THEN ans.verification_status ELSE "absent"

\* ActionVerifier.verify_action: no 'verification' on the action counts as
\* verified without a call; else verified iff verification_status == 'success'
ollama_verify_action(action, ans) ==
    IF ~action.verification THEN TRUE ELSE OllamaApiStatus(ans) = "success"

\* the state of the other backends while the Ollama backend runs
InitO ==
    /\ InitEngine
    /\ InitEnhanced
    /\ pyautogui_available = TRUE
    /\ InitParse
    /\ InitLog
    /\ InitFocus
    /\ InitOllama

\* run_frontend_loop calls execute_task inline: task_start, the first screenshot;
\* without a screenshot send_error and return
O_ExecuteTask(shot) ==
    /\ o_pc \in {"idle", "returned"}
    /\ o_actions' = << >>
    /\ o_idx' = 0
    /\ o_attempt' = 0
    /\ o_log' = << >>
    /\ IF shot
       THEN o_pc' = "plan" /\ o_message' = Msg("task_start", FALSE)
       ELSE o_pc' = "returned" /\ o_message' = Msg("error", FALSE)
    /\ UNCHANGED <<engineVars, enhVars, parseVars, logVars, focusVars>>

\* initial_response = self.call_ollama_api(...): error and non-task answers return
O_Plan(resp) ==
    /\ o_pc = "plan"
    /\ IF resp.status = "error"
       THEN /\ o_message' = Msg("error", FALSE)
            /\ o_pc' = "returned"
            /\ UNCHANGED o_actions
       ELSE IF resp.type # "task"
       THEN /\ o_message' = Msg("response", FALSE)
            /\ o_pc' = "returned"
            /\ UNCHANGED o_actions
       ELSE /\ o_actions' = resp.actions
            /\ o_pc' = "loop"
            /\ UNCHANGED o_message
    /\ UNCHANGED <<o_idx, o_attempt, o_log>>
    /\ UNCHANGED <<engineVars, enhVars, parseVars, logVars, focusVars>>

\* for idx, action in enumerate(actions, 1): send_action_start, first attempt
O_StepBegin ==
    /\ o_pc = "loop"
    /\ o_idx < Len(o_actions)
    /\ o_idx' = o_idx + 1
    /\ o_attempt' = 1
    /\ o_message' = Msg("action_start", FALSE)
    /\ o_pc' = "exec"
    /\ UNCHANGED <<o_actions, o_log>>
    /\ UNCHANGED <<engineVars, enhVars, parseVars, logVars, focusVars>>

\* the attempt did not pass: the next attempt, or after the last one
\* send_action_complete(False) and the inner loop ends; the outer loop goes on
O_AttemptFailed ==
    /\ IF o_attempt < ollama_max_action_retries
       THEN /\ o_attempt' = o_attempt + 1
            /\ o_pc' = "exec"
            /\ UNCHANGED <<o_log, o_message>>
       ELSE /\ o_log' = Append(o_log, "exhausted")
            /\ o_message' = Msg("action_complete", FALSE)
            /\ o_pc' = "loop"
            /\ UNCHANGED o_attempt

\* result = self.execute_action(action)
O_Execute(success) ==
    /\ o_pc = "exec"
    /\ IF success
       THEN /\ o_pc' = "verify"
            /\ UNCHANGED <<o_attempt, o_log, o_message>>
       ELSE O_AttemptFailed
    /\ UNCHANGED <<o_actions, o_idx>>
    /\ UNCHANGED <<engineVars, enhVars, parseVars, logVars, focusVars>>

\* verification = self.verifier.verify_action(action, result): verified sends
\* action_complete(True) and breaks
O_Verify(ans) ==
    /\ o_pc = "verify"
    /\ IF ollama_verify_action(o_actions[o_idx], ans)
       THEN /\ o_log' = Append(o_log, "verified")
            /\ o_message' = Msg("action_complete", TRUE)
            /\ o_pc' = "loop"
            /\ UNCHANGED o_attempt
       ELSE O_AttemptFailed
    /\ UNCHANGED <<o_actions, o_idx>>
    /\ UNCHANGED <<engineVars, enhVars, parseVars, logVars, focusVars>>

\* after the loop: send_task_complete(user_request, True)
O_Complete ==
    /\ o_pc = "loop"
    /\ o_idx = Len(o_actions)
    /\ o_message' = Msg("task_complete", TRUE)
    /\ o_pc' = "returned"
    /\ UNCHANGED <<o_actions, o_idx, o_attempt, o_log>>
    /\ UNCHANGED <<engineVars, enhVars, parseVars, logVars, focusVars>>

NextO ==
    \/ \E shot \in BOOLEAN : O_ExecuteTask(shot)
    \/ \E resp \in OllamaPlans : O_Plan(resp)
    \/ O_StepBegin
    \/ \E success \in BOOLEAN : O_Execute(success)
    \/ \E ans \in OllamaAnswers : O_Verify(ans)
    \/ O_Complete

SpecO == InitO /\ [][NextO]_vars

\* ==================================================================== claims
inCall == pc \in {"exec", "verify", "reanalysis"}
counters == <<n_act, n_verify, n_recovery>>
workerVars == <<pc, actions, current_step, task_success, retry, ui_context, attempts,
                verifies, outcome, n_act, n_verify, n_recovery, recov_here, all_first>>

\* C1: an execute_task request that arrives while an execution thread is alive is
\* answered with the error event 'Agent is busy with another task' and changes
\* nothing else: no thread is started or replaced for it, now or later (a thread is
\* started only by a request that found none alive); and at most one execution
\* thread is alive in every reachable state.
C1_RejectedWhenBusy ==
    /\ [](Cardinality(ActiveThreads) <= 1)
    /\ [][\A text \in TaskTexts :
            (ActiveThreads # {} /\ RequestExecuteTask(text))
                => /\ last_event' = BusyError
                   /\ UNCHANGED <<stop_event, execution_thread, threads, workerVars>>]_vars
    /\ [][threads' # threads /\ ActiveThreads' # {} => ActiveThreads = {}]_vars

\* a request has been rejected while the run it collided with is still going
C1_Witness ==
    /\ last_event = BusyError
    /\ ActiveThreads = {1}
    /\ pc = "exec"

\* an attempt of the step's operation ends in failure: a step of the execution
\* thread from an actuator or verifier call that is neither a successful actuator
\* return nor a verified verdict
FailedAttemptStep ==
    /\ pc \in {"exec", "verify"}
    /\ pc' # pc \/ attempts' # attempts
    /\ ~(pc = "exec" /\ pc' = "verify")
    /\ ~(pc = "verify" /\ pc' = "loop_top")

\* C2: within one call of execute_action_with_verification the step's own operation
\* is passed to the actuator at most max_action_retries times, whatever the mix of
\* actuator failures and failed verdicts; when the attempt that uses up the budget
\* fails, the call makes no further attempt and its failure is back in the step
\* loop (task_success = False, recovery request).
C2_RetryBudget ==
    /\ [](attempts <= max_action_retries)
    /\ [][(FailedAttemptStep /\ attempts = max_action_retries)
            => /\ pc' = "recovery"
               /\ ~task_success'
               /\ UNCHANGED <<attempts, n_act, current_step>>]_vars
    /\ [][(pc # "recovery" /\ pc' = "recovery") => attempts = max_action_retries]_vars

\* a call that failed after three attempts, some failing in the actuator and some
\* in verification
C2_Witness ==
    /\ pc = "recovery"
    /\ attempts = max_action_retries
    /\ verifies \in {1, 2}

\* the step loop was left by `break`: no recovery plan for the step at current_step
AbortedRun ==
    /\ current_step < Len(actions)
    /\ pc = "finalize" \/ outcome \in {"Succeeded", "Failed", "Crashed"}

C4_Original == recov_here <= 1

\* C5 as stated: the step a replan placed at index current_step is not granted a
\* full budget of its own, so it never gets to an attempt number max_action_retries.
C5_Original == (recov_here >= 1 /\ inCall) => attempts < max_action_retries

\* C5 amended: a successful replan leaves current_step unchanged and the step loop
\* resumes there; the call for the replacement step starts a new retry loop
\* (retry = 0, first attempt), and no call, a replacement's included, returns a
\* failure before it has made max_action_retries attempts of its own, nor makes more.
C5_FreshBudget ==
    /\ [][(pc = "recovery" /\ pc' = "loop_top")
            => current_step' = current_step /\ recov_here' = recov_here]_vars
    /\ [][(pc = "loop_top" /\ pc' = "exec") => retry' = 0 /\ attempts' = 1]_vars
    /\ [](attempts <= max_action_retries)
    /\ [](pc = "recovery" => attempts = max_action_retries)

\* the replacement step at the index of a replan is in its third attempt
C5_Witness ==
    /\ recov_here = 1
    /\ pc = "exec"
    /\ attempts = max_action_retries

\* the step loop ran every step of the plan and no attempt failed
AllFirstDone ==
    /\ all_first
    /\ Len(actions) > 0
    /\ pc \in {"finalize", "exiting", "done"}
    /\ outcome # "Cancelled"

C7_CancelObserved ==
    /\ [][(Running /\ pc = "loop_top" /\ current_step < Len(actions) /\ stop_event
              /\ pc' # pc)
            => /\ pc' = "exiting"
               /\ outcome' = "Cancelled"
               /\ last_event' = Event("task_complete", "task", FALSE)
               /\ UNCHANGED <<counters, attempts, verifies>>]_vars
    /\ [][(outcome = "Cancelled" /\ execution_thread' = execution_thread)
            => /\ outcome' = "Cancelled"
               /\ pc' \in {"exiting", "done"}
               /\ UNCHANGED <<counters, attempts, verifies>>]_vars

\* a run cancelled after a replan, before the replacement step was tried
C7_Witness ==
    /\ outcome = "Cancelled"
    /\ pc = "done"
    /\ n_recovery = 1
    /\ n_act = max_action_retries

\* under SpecD a cancel_task of this run is Scenario D's
ScenarioD == cancel_in_run

C9_Original == cancel_in_run => outcome # "Succeeded"

\* C10: a cancel_task that finds the flag set changes nothing; a thread is started
\* only with the flag clear; and a run reports Cancelled only if a cancel_task
\* arrived after it was started.
C10_CancelStateless ==
    /\ [][(stop_event /\ RequestCancel) => UNCHANGED vars]_vars
    /\ [][execution_thread' # execution_thread => ~stop_event']_vars
    /\ [](Running /\ stop_event /\ outcome = "none" => cancel_in_run)
    /\ [](outcome = "Cancelled" => cancel_in_run)

\* a run taken up while an earlier cancel_task was still pending went through its
\* step loop and reported Succeeded
C10_Witness ==
    /\ stale_cancel
    /\ ~cancel_in_run
    /\ n_act >= 1
    /\ outcome = "Succeeded"

\* the run ended in execute_task, before _execute_task_with_verification
PlanningEnded == actions = << >> /\ outcome # "none"

\* C11: a run whose planning fails (no screenshot, oracle error or unparsable
\* output, non-task response) ends there: its report is an error event, Rejected
\* for a non-task response and Failed otherwise, told apart by the message; it has
\* made no actuator call, no verifier call and no recovery request, and it makes
\* none afterwards.
C11_PlanningFailure ==
    /\ [](PlanningEnded
            => /\ outcome \in {"Failed", "Rejected"}
               /\ n_act = 0 /\ n_verify = 0 /\ n_judge = 0 /\ n_recovery = 0)
    /\ [][(pc = "planning" /\ pc' = "exiting")
            => /\ outcome' \in {"Failed", "Rejected"}
               /\ last_event'.type = "error"
               /\ (outcome' = "Rejected")
                    <=> (last_event'.about = "I can only perform actions in Act mode")]_vars
    /\ [][(PlanningEnded /\ execution_thread' = execution_thread)
            => PlanningEnded' /\ pc' \in {"exiting", "done"}]_vars

\* a non-task response has been rejected and the thread has ended
C11_Witness ==
    /\ outcome = "Rejected"
    /\ pc = "done"
    /\ n_act = 0
    /\ last_event = Event("error", "I can only perform actions in Act mode", FALSE)

\* Scenario A has run: a plan of one step without a verification block, whose
\* actuator call succeeded at once
ScenarioADone ==
    /\ Len(actions) = 1
    /\ ~actions[1].verification
    /\ all_first
    /\ current_step = 1

\* C12 as stated: Scenario A ends Succeeded after 1 actuator call and no judge call.
C12_Original ==
    (ScenarioADone /\ outcome \in {"Succeeded", "Failed"})
        => (n_act = 1 /\ n_judge = 0 /\ outcome = "Succeeded")

\* C12 amended: in Scenario A the step is auto-verified (verify_action returns
\* without a screenshot or a judge call) after exactly 1 actuator call, the step
\* loop ends with task_success = True, and the report is Succeeded exactly when the
\* completion judgment says completed.
C12_ScenarioA ==
    ScenarioADone
        => /\ n_act = 1
           /\ n_verify = 1
           /\ n_judge = 0
           /\ n_recovery = 0
           /\ task_success
           /\ pc \in {"loop_top", "finalize", "exiting", "done"}
           /\ outcome \in {"Succeeded", "Failed"} => (outcome = "Succeeded" <=> completed)

\* Scenario A reported Failed
C12_Witness ==
    /\ ScenarioADone
    /\ n_act = 1
    /\ n_judge = 0
    /\ outcome = "Failed"

\* under SpecB: the step loop has run Scenario B to its end
ScenarioBDone ==
    /\ n_recovery = 1
    /\ current_step = Len(actions)
    /\ pc \in {"finalize", "exiting", "done"}

\* C13 as stated: Scenario B makes exactly 5 actuator calls and ends Succeeded.
C13_Original ==
    (ScenarioBDone /\ outcome \in {"Succeeded", "Failed"})
        => (n_act = 5 /\ outcome = "Succeeded")

\* C13 amended: Scenario B makes exactly 5 actuator calls (3 of the failing step,
\* 2 of its replacements), 5 verifier calls and 1 recovery request; task_success
\* stays False after the replan, so the task summary is action_complete with
\* success = False; and the report is Succeeded exactly when the completion
\* judgment says completed.
C13_ScenarioB ==
    ScenarioBDone
        => /\ n_act = 5
           /\ n_verify = 5
           /\ Len(actions) = 2
           /\ ~task_success
           /\ pc = "finalize" => last_event \in {TaskSummary(FALSE), BusyError}
           /\ outcome \in {"Succeeded", "Failed"} => (outcome = "Succeeded" <=> completed)

\* Scenario B reported Failed after its 5 actuator calls
C13_Witness ==
    /\ ScenarioBDone
    /\ n_act = 5
    /\ outcome = "Failed"
    /\ pc = "done"

\* Every request with a text carries the text "task": a request that arrives after
\* a run has reported resubmits that run's task.
\* C14 as stated: an execute_task request carrying the task of a run that has
\* reached its terminal state starts no new run.
C14_Original ==
    [][(outcome # "none" /\ RequestExecuteTask("task"))
        => UNCHANGED <<execution_thread, threads, pc, n_act>>]_vars

\* C14 amended: such a request is rejected (error 'Agent is busy with another
\* task', nothing started) only while the execution thread of the completed run
\* is still alive; once that thread has ended the request is accepted and starts
\* a new run of the same task from planning.
C14_ResubmitRestarts ==
    /\ [][(outcome # "none" /\ ActiveThreads # {} /\ RequestExecuteTask("task"))
            => /\ last_event' = BusyError
               /\ UNCHANGED <<execution_thread, threads, workerVars>>]_vars
    /\ [][(outcome # "none" /\ ActiveThreads = {} /\ RequestExecuteTask("task"))
            => /\ execution_thread' = execution_thread + 1
               /\ ActiveThreads' = {execution_thread'}
               /\ pc' = "planning"
               /\ outcome' = "none"
               /\ n_act' = 0
               /\ last_event' = Event("action_start", "task", FALSE)]_vars

\* the task of a completed run is being run again and has got to an actuator call
C14_Witness ==
    /\ execution_thread = 2
    /\ threads[1] = "dead"
    /\ pc = "exec"
    /\ n_act = 1

\* C15: the success flag of task_complete after Finalizing is the 'completed' of
\* the final judgment, False when the judgment call errors or the field is
\* missing, whatever the step verdicts were: the step that leaves Finalizing with a
\* report emits task_complete with success = completed, and the report is
\* Succeeded exactly when completed.
C15_JudgmentDecides ==
    /\ [](last_event.type = "task_complete" => last_event.success = completed)
    /\ [][(pc = "finalize" /\ pc' = "exiting")
            => /\ last_event' = Event("task_complete", "task", completed')
               /\ outcome' = IF completed' THEN "Succeeded" ELSE "Failed"]_vars
    /\ [](outcome = "Succeeded" => completed)

\* a run with a failed step and an abandoned plan reports success
C15_Witness ==
    /\ outcome = "Succeeded"
    /\ ~task_success
    /\ current_step < Len(actions)
    /\ last_event = Event("task_complete", "task", TRUE)

\* C16 as stated (its 'no run ends without one'): when the execution thread of a
\* run has ended, the run has emitted its terminal summary event: task_complete
\* (Succeeded, Failed, Cancelled) or the error of a planning failure (Failed,
\* Rejected).
C16_Original ==
    (execution_thread # 0 /\ threads[execution_thread] = "dead")
        => outcome \in {"Succeeded", "Failed", "Cancelled", "Rejected"}

\* C17 as stated: a run that ended Cancelled has performed the cleanup the other
\* terminal states perform, so no screenshot files are left behind.
C17_Original == (outcome = "Cancelled" /\ pc = "done") => ~screenshots

\* C18 as stated: whenever execute_task of the enhanced backend has returned,
\* executor.held_keys is empty.
C18_Original == (e_pc = "idle" /\ e_return # "none") => held_keys = {}

\* C19: execute_action returns a result with a boolean success and a message in
\* all circumstances: for an action type without a branch, for parameters that
\* are missing or invalid, without a GUI, and when the underlying call raises an
\* Exception the result reports success = False; and in the retry loop a failed
\* result uses up one attempt of the step's budget exactly as a failed verdict
\* does: the next attempt while retries remain, else the failure goes back to
\* the step loop.
C19_ActuatorValue ==
    /\ [](\A c \in ActuatorCalls :
            LET r == execute_action(c)
            IN  /\ DOMAIN r = {"success", "message"}
                /\ r.success \in BOOLEAN
                /\ c.action \in {"unknown", "analyze_ui"}
                     => r = Result(FALSE, "Unknown action")
                /\ (c.call = "raises" /\ c.action # "human_in_the_loop") => ~r.success
                /\ (c.parameters = "missing" /\ c.action \in CheckedGuiActions)
                     => ~r.success
                /\ (~c.gui /\ c.action \in GuiActions \cup CheckedGuiActions)
                     => r = Result(FALSE, "GUI not available"))
    /\ [][FailedAttemptStep
            => IF retry < max_action_retries - 1
               THEN /\ retry' = retry + 1
                    /\ pc' \in {"exec", "reanalysis"}
                    /\ pc' = "exec" => attempts' = attempts + 1
                    /\ UNCHANGED <<n_recovery, current_step, task_success>>
               ELSE /\ pc' = "recovery"
                    /\ n_recovery' = n_recovery + 1
                    /\ ~task_success'
                    /\ UNCHANGED <<attempts, current_step>>]_vars
    /\ [][pc = "exec" => threads' = threads /\ outcome' = outcome]_vars

\* three failed actuator results have used up a step's budget
C19_Witness ==
    /\ pc = "recovery"
    /\ attempts = max_action_retries
    /\ verifies = 0
    /\ last_event = Event("action_complete", "step", FALSE)

\* C20: when the judge call raises or times out, or its output holds no JSON,
\* JSON that does not parse, or JSON that is not an object, verify_action returns
\* verified = False with status error; the retry loop treats every verdict that
\* is not verified alike, whatever its status: the next attempt while retries
\* remain, else the recovery request; and the run does not end in the verifier.
C20_JudgeFailureDegrades ==
    /\ [](\A st \in Steps, reply \in JudgeReplies :
            (st.verification /\ reply.text \in JudgeFaults)
                => verify_action(st, reply) = Verdict(FALSE, "error", FALSE))
    /\ [][\A status \in FailedStatuses :
            VerifyFailed(status, FALSE)
                => IF retry < max_action_retries - 1
                   THEN /\ retry' = retry + 1
                        /\ attempts' = attempts + 1
                        /\ pc' = "exec"
                        /\ UNCHANGED <<n_recovery, current_step, task_success>>
                   ELSE /\ pc' = "recovery"
                        /\ n_recovery' = n_recovery + 1
                        /\ ~task_success'
                        /\ UNCHANGED <<attempts, current_step>>]_vars
    /\ [][pc = "verify" => threads' = threads /\ outcome' = outcome]_vars

\* a step's budget was used up by verifications, the last of them an error
\* verdict, and the recovery request is out
C20_Witness ==
    /\ pc = "recovery"
    /\ verifies = max_action_retries
    /\ last_event = Event("action_complete", "Verification error", FALSE)

\* C21 as stated: every attempt, whether the actuator reported success or failure,
\* has got a verdict of the verifier when the engine starts the next attempt,
\* advances or replans: the verifier was called once per attempt.
C21_Original ==
    /\ pc = "exec" => verifies = attempts - 1
    /\ pc \in {"reanalysis", "recovery"} => verifies = attempts

\* C21 amended: an attempt whose actuator call reported success gets exactly one
\* verifier call, and the engine goes on (advance, next attempt, discovery or
\* replan) only with that call's verdict and without a second verifier call; an
\* attempt whose actuator call reported failure gets no verifier call at all and
\* goes straight to the next attempt, discovery or replan.
C21_VerdictPerSuccess ==
    /\ [][(pc = "exec" /\ pc' = "verify")
            => verifies' = verifies + 1 /\ n_verify' = n_verify + 1]_vars
    /\ [][(pc = "exec" /\ pc' # "verify" /\ <<pc, attempts>>' # <<pc, attempts>>)
            => /\ UNCHANGED <<verifies, n_verify, n_judge>>
               /\ pc' \in {"exec", "reanalysis", "recovery"}]_vars
    /\ [][(pc = "verify" /\ execution_thread' = execution_thread)
            => \/ UNCHANGED <<pc, verifies, n_verify, attempts, current_step>>
               \/ /\ pc' \in {"loop_top", "exec", "reanalysis", "recovery"}
                  /\ UNCHANGED <<verifies, n_verify>>]_vars
    /\ [][(verifies' # verifies /\ pc # "loop_top" /\ execution_thread' = execution_thread)
            => pc = "exec" /\ pc' = "verify"]_vars
    /\ [](inCall => verifies <= attempts)
    /\ [](pc = "verify" => verifies >= 1)

\* a step verified on its second attempt: the first failed in the actuator and
\* passed without a verdict
C21_Witness ==
    /\ pc = "loop_top"
    /\ current_step = 1
    /\ attempts = 2
    /\ verifies = 1
    /\ n_verify = 1

\* the loaded value is an object with a 'type' and, when the type is task, a
\* non-empty list of actions, each an object with 'action' and 'description'
WellFormed(v) ==
    /\ v.is_dict
    /\ v.type # "absent"
    /\ v.type = "task"
        => /\ v.actions_kind = "list"
           /\ Len(v.items) >= 1
           /\ \A i \in 1..Len(v.items) :
                v.items[i].is_dict /\ v.items[i].action /\ v.items[i].description

\* C22: send_to_llm returns the oracle's output, exactly as json.loads gave it,
\* if and only if a JSON value was loaded from the text and it is an object with
\* the key 'type' and, when the type is task, a non-empty list 'actions' whose
\* every item is an object with the keys 'action' and 'description'; in every
\* other case (the call raised, no JSON, JSON that does not load, any violation of
\* the schema) it returns {status: error, actions: []}; nothing is returned
\* before, and a plan is never let through in part or altered.
C22_ParserAccepts ==
    /\ s_pc = "returned"
        => IF loaded # NoValue /\ WellFormed(loaded)
           THEN llm_response = Outcome("ok", loaded)
           ELSE llm_response = ErrorOutcome
    /\ s_pc \notin {"returned", "idle"} => llm_response = NoOutcome
    /\ s_pc \in {"generate", "extract", "loads"} => loaded = NoValue

\* a task whose second action has no description was turned down as a whole
C22_Witness ==
    /\ s_pc = "returned"
    /\ loaded.type = "task"
    /\ Len(loaded.items) = 2
    /\ loaded.items[1] = [is_dict |-> TRUE, action |-> TRUE, description |-> TRUE]
    /\ loaded.items[2] = [is_dict |-> TRUE, action |-> TRUE, description |-> FALSE]
    /\ llm_response = ErrorOutcome

\* data.get(name) on the data of a message
Field(data, name) == IF name \in DOMAIN data THEN data[name] ELSE "absent"

\* the step a message describes
StepFromMessage(data) ==
    FullStep(Field(data, "description"), Field(data, "action_type"),
             Field(data, "parameters"))

\* the steps read back from the action_step messages: each message puts the step
\* it describes at the index it names
RECURSIVE Rebuild(_, _)
Rebuild(log, plan) ==
    IF log = << >> THEN plan
    ELSE Rebuild(Tail(log),
                 SubSeq(plan, 1, Head(log).step - 1) \o <<StepFromMessage(Head(log))>>)
Described(step) == FullStep(step.description, step.action, "absent")

\* the steps of the plan that have been handed to execute_action_with_verification
\* and not been replaced: those before current_step and the one in the call
Executed == l_current + (IF l_pc = "call" THEN 1 ELSE 0)

\* C23 as stated: when the loop has ended, the steps read back from the messages
\* are the executed steps of the plan, in order, parameter maps included.
C23_Original ==
    l_pc = "end"
        => LET back == Rebuild(l_log, << >>)
           IN  /\ Len(back) >= l_current
               /\ \A i \in 1..l_current : back[i] = l_actions[i]

\* C23 amended: the steps read back from the action_step messages are the
\* executed steps of the plan in the same order with the same descriptions and
\* operation kinds; no message carries a step's parameter map, which is not read
\* back.
C23_OrderAndDescriptions ==
    LET back == Rebuild(l_log, << >>)
    IN  /\ Len(back) >= Executed
        /\ \A i \in 1..Executed : back[i] = Described(l_actions[i])
        /\ \A i \in 1..Len(l_log) : Field(l_log[i], "parameters") = "absent"

\* two steps done, the first of them the replacement for a step of another
\* description that had failed
C23_Witness ==
    /\ l_pc = "end"
    /\ l_current = 2
    /\ Len(l_log) = 3
    /\ l_log[1].step = 1
    /\ l_log[2].step = 1
    /\ l_log[1].description # l_log[2].description
    /\ l_actions[1].parameters = "p2"

\* the control points of the execution thread with an oracle, actuator, verifier
\* or discovery call in flight
CallInFlight ==
    Running /\ pc \in {"planning", "exec", "verify", "reanalysis", "recovery", "finalize"}

\* C24: stop_event is read only where the step loop starts an iteration: a run
\* turns to Cancelled only from there, with the flag set.  A cancel_task changes
\* the flag and nothing of the execution thread, whatever call is in flight, and
\* with the flag set a call in flight can still return every result it could
\* return without it: the actuator call its success or failure, the verifier its
\* verdict, the oracle its plan or error.
C24_CancelAtBoundaries ==
    /\ [][(outcome' = "Cancelled" /\ outcome # "Cancelled")
            => pc = "loop_top" /\ current_step < Len(actions) /\ stop_event]_vars
    /\ [][stop_event' # stop_event /\ stop_event'
            => UNCHANGED <<execution_thread, threads, last_event, workerVars>>]_vars
    /\ [](CallInFlight /\ stop_event /\ pc = "exec" /\ n_act < MaxCalls
            => ENABLED ActuatorOk /\ ENABLED ActuatorFail)
    /\ [](CallInFlight /\ stop_event /\ pc = "verify"
            => ENABLED VerifyOk)
    /\ [](CallInFlight /\ stop_event /\ pc = "verify" /\ n_act < MaxCalls
            /\ actions[current_step + 1].verification
            => ENABLED VerifyFailed("failure", FALSE))
    /\ [](CallInFlight /\ stop_event /\ pc = "recovery"
            => ENABLED RecoveryFail /\ ENABLED RecoveryTask(<<[verification |-> TRUE]>>))
    /\ [](CallInFlight /\ stop_event /\ pc = "planning"
            => ENABLED PlanOracleError /\ ENABLED PlanTask(<<[verification |-> TRUE]>>))
    /\ [](CallInFlight /\ stop_event /\ pc = "finalize" => ENABLED Judged(TRUE))

\* a cancel_task arrived while the calls of the first step were in flight: the
\* step went through all its attempts and the recovery request is out
C24_Witness ==
    /\ Running
    /\ pc = "recovery"
    /\ stop_event
    /\ ~stale_cancel
    /\ cancel_in_run
    /\ current_step = 0
    /\ n_recovery = 1

\* C25 as stated: a verdict that is not verified and asks for reanalysis, with
\* retries left, is followed by exactly one discovery step before the next attempt
\* of the step, and that attempt starts with the UI context refreshed from the
\* discovery step's result; a discovery step is run only straight after such a
\* verdict, not when the latest attempt brought none.
C25_Original ==
    /\ [][(pc = "verify" /\ pc' \in {"exec", "reanalysis"})
            => (pc' = "reanalysis" <=> ui_context'.requires_reanalysis)]_vars
    /\ [][(pc = "reanalysis" /\ pc' # pc)
            => pc' = "exec" /\ ui_context'.ui_elements = "found"]_vars
    /\ [][(pc' = "reanalysis" /\ pc # "reanalysis") => pc = "verify"]_vars

\* C26 as stated: past a verdict that asked for reanalysis no stale context is
\* left: the UI context the next attempt starts with, and the UI context put into
\* the recovery prompt when the step is given up, hold the data of a discovery
\* step made after that verdict, and only that.
C26_Original ==
    /\ (pc = "exec" /\ retry > 0 /\ verifies = attempts - 1
            /\ ui_context.requires_reanalysis)
        => ui_context.ui_elements = "found"
    /\ (pc = "recovery" /\ verifies = attempts /\ ui_context.requires_reanalysis)
        => task_ui_context.ui_elements = "found"

\* C27: a recovery response that is a task changes the plan and nothing else of
\* the step loop: the steps before current_step stay as they were, everything from
\* current_step on is replaced by the oracle's actions in their order, current_step
\* and task_success keep their values, no call is made for it, and the next step
\* the loop starts is the one now at current_step, the first of the replacement.
C27_ReplanSuffix ==
    /\ [][\A plan \in RecoveryPlans :
            RecoveryTask(plan)
                => /\ Len(actions') = current_step + Len(plan)
                   /\ \A i \in 1..current_step : actions'[i] = actions[i]
                   /\ \A j \in 1..Len(plan) : actions'[current_step + j] = plan[j]
                   /\ UNCHANGED <<current_step, task_success, counters, outcome>>
                   /\ pc' = "loop_top"]_vars
    /\ [][(pc = "recovery" /\ pc' # pc /\ execution_thread' = execution_thread)
            => \/ pc' = "finalize" /\ UNCHANGED <<actions, current_step>>
               \/ /\ pc' = "loop_top"
                  /\ current_step' = current_step
                  /\ current_step < Len(actions')
                  /\ SubSeq(actions', 1, current_step) = SubSeq(actions, 1, current_step)
                  /\ SubSeq(actions', current_step + 1, Len(actions')) \in RecoveryPlans]_vars
    /\ [][(pc = "loop_top" /\ pc' = "exec") => UNCHANGED <<actions, current_step>>]_vars
    /\ [](pc \in {"loop_top", "exec", "verify", "reanalysis", "recovery"} /\ recov_here > 0
            => current_step < Len(actions))

\* the second step of a plan was replaced by two steps, the first step is still
\* in place and the first of the replacement is being attempted
C27_Witness ==
    /\ pc = "exec"
    /\ current_step = 1
    /\ recov_here = 1
    /\ n_recovery = 1
    /\ Len(actions) = 3
    /\ attempts = 1

\* C28: within a run current_step changes only by one step forward, and only on
\* a verified verdict, which the verifier gives after an actuator call of that
\* step reported success; every attempt is of the step at current_step, which
\* stays put through failed attempts, discovery and replans; so no step is
\* skipped and none is attempted before its predecessor was verified.
C28_PlanOrder ==
    /\ [][(current_step' # current_step /\ execution_thread' = execution_thread)
            => /\ current_step' = current_step + 1
               /\ pc = "verify" /\ pc' = "loop_top"
               /\ verifies >= 1 /\ verifies <= attempts
               /\ last_event' = Event("action_complete", "step", TRUE)]_vars
    /\ [][(pc = "verify" /\ pc' = "loop_top") => current_step' = current_step + 1]_vars
    /\ [][pc' = "verify" /\ pc # "verify" => pc = "exec"]_vars
    /\ [](inCall => current_step < Len(actions))
    /\ [](current_step <= Len(actions))
    /\ [](current_step <= n_verify /\ n_verify <= n_act)

\* the first step was verified on its third attempt and the second step is in
\* its first attempt
C28_Witness ==
    /\ pc = "exec"
    /\ current_step = 1
    /\ n_act = 4
    /\ n_verify = 3
    /\ n_recovery = 0
    /\ attempts = 1

\* C29 as stated: json_str is the content of the fenced block if there is one,
\* else the first balanced brace span of the response, from its first "{" to the
\* "}" that closes it, also when more text with braces follows; the search ends
\* with 'No JSON found' exactly when there is neither.
C29_Original ==
    /\ s_pc \in {"loads", "validate"}
        => /\ FencedBlock(response_text).found \/ BraceSpan_balanced(response_text).found
           /\ json_str = IF FencedBlock(response_text).found
                         THEN FencedBlock(response_text).str
                         ELSE BraceSpan_balanced(response_text).str
    /\ (~FencedBlock(response_text).found /\ ~BraceSpan_balanced(response_text).found)
        => s_pc \in {"generate", "extract", "returned"}

\* C30 as stated: in the enhanced execute_task, once the recovery response has
\* parsed, the engine goes on with the recovery actions: they are the next
\* actions handed to the executor, and step keeps its value for them.
C30_Original ==
    [][(recovery_plan.pending /\ e_pc = "loop")
          => /\ e_pc' = "for"
             /\ e_actions' = recovery_plan.actions
             /\ e_step' = e_step]_vars

\* C31 as stated: every accepted run eventually reaches a terminal state when every
\* external call returns and no cancel_task is sent, whatever plans, actuator
\* outcomes and verdicts come back.  The run is taken to be over as soon as
\* outcome is set: by task_complete, by a planning error, or (C16) by the death of
\* the thread on a judgment it cannot read.
C31_Original == [](pc = "planning" => <>(outcome # "none"))

\* cancel_task has been received by a run that is in its step loop and has not
\* reported yet
CancelPending ==
    /\ Running /\ stop_event /\ outcome = "none"
    /\ pc \in {"loop_top", "exec", "verify", "reanalysis", "recovery"}

\* C32: once the flag is set while a run is in its step loop, the run ends within
\* one iteration.  Every later actuator call is a further attempt of the call of
\* execute_action_with_verification that is under way (same step, at most
\* max_action_retries attempts in all); a recovery request is made only by that
\* call's failure, and after it the run makes no other: the loop is back at its
\* top with a step to run, or has left for the final judgment; and at the top of
\* the loop with a step to run the run does nothing but report Cancelled.
C32_CancelWithinIteration ==
    [][CancelPending =>
        /\ n_act' # n_act =>
              /\ pc \in {"exec", "verify", "reanalysis"}
              /\ n_act' = n_act + 1
              /\ attempts' = attempts + 1
              /\ attempts' <= max_action_retries
              /\ current_step' = current_step
              /\ actions' = actions
        /\ n_recovery' # n_recovery =>
              /\ pc \in {"exec", "verify"}
              /\ n_recovery' = n_recovery + 1
              /\ pc' = "recovery"
        /\ (pc = "recovery" /\ pc' # pc) =>
              \/ pc' = "loop_top" /\ current_step' < Len(actions')
              \/ pc' = "finalize"
        /\ (pc = "loop_top" /\ current_step < Len(actions) /\ pc' # pc) =>
              outcome' = "Cancelled"
        /\ pc' \in {"loop_top", "exec", "verify", "reanalysis", "recovery",
                    "finalize", "exiting"}
        /\ stop_event']_vars

\* a run whose only step was attempted max_action_retries times and replanned once,
\* and which then reported Cancelled at the top of the loop
C32_Witness ==
    /\ outcome = "Cancelled" /\ cancel_in_run
    /\ current_step = 0 /\ Len(actions) > 0
    /\ n_act = max_action_retries
    /\ n_recovery = 1

\* C33: task_success is sticky.  Inside the step loop it is false exactly when some
\* step of the run has exhausted its retries (each such failure sends one recovery
\* request), it never turns true again, and the summary action_complete sent on
\* leaving the loop carries it: success = true iff no step ever exhausted its
\* retries, also when a replan succeeded and every later step verified.
C33_StickyTaskSuccess ==
    [][(Running /\ pc \in {"loop_top", "exec", "verify", "reanalysis", "recovery"}) =>
        /\ task_success = (n_recovery = 0)
        /\ pc' \in {"loop_top", "exec", "verify", "reanalysis", "recovery", "finalize"}
              => task_success' = (n_recovery' = 0) /\ (~task_success => ~task_success')
        /\ pc' = "finalize" => last_event' = TaskSummary(n_recovery = 0)]_vars

\* the summary of a run whose step failed, was replanned, and whose steps then all
\* verified
C33_Witness ==
    /\ Running /\ pc = "finalize"
    /\ n_recovery = 1
    /\ current_step = Len(actions)
    /\ last_event = TaskSummary(FALSE)

\* C34: Finalizing runs exactly once on a run that entered the step loop and did
\* not observe cancellation, and never on a cancelled run.  It is entered only
\* from the step loop, by the end of the plan or by the abort after a failed
\* replan, each time with the summary action_complete; it is left only by the
\* report of the completion judgment (or the death of the thread), never back
\* into the loop, and no actuator call, verifier call or recovery request is made
\* from then on; task_complete with the judgment comes from nowhere else, and the
\* cancel report comes only from the top of the loop.
C34_FinalizeOnce ==
    [][Running =>
        /\ (pc' = "finalize" /\ pc # "finalize") =>
              /\ \/ pc = "loop_top" /\ current_step = Len(actions)
                 \/ pc = "recovery"
              /\ last_event' = TaskSummary(task_success)
        /\ (last_event' = TaskSummary(task_success) /\ last_event' # last_event) =>
              pc' = "finalize"
        /\ pc = "finalize" =>
              /\ pc' \in {"finalize", "exiting", "done"}
              /\ pc' = "exiting" =>
                    /\ outcome' \in {"Succeeded", "Failed"}
                    /\ last_event' = Event("task_complete", "task", completed')
        /\ pc \in {"finalize", "exiting", "done"} =>
              /\ pc' \in {"finalize", "exiting", "done"}
              /\ UNCHANGED <<n_act, n_verify, n_judge, n_recovery>>
        /\ (outcome' = "Cancelled" /\ outcome # "Cancelled") => pc = "loop_top"
        /\ (outcome' \in {"Succeeded", "Failed"} /\ outcome = "none" /\ actions # << >>)
              => pc = "finalize"]_vars

\* a run aborted by a failed replan has been through Finalizing and reported
C34_Witness ==
    /\ Running /\ pc = "exiting"
    /\ outcome \in {"Succeeded", "Failed"}
    /\ n_recovery > 0
    /\ current_step < Len(actions)
    /\ last_event.type = "task_complete"

\* C35: an execute_task request that arrives while the execution thread is alive
\* is rejected as busy and changes nothing but the error it prints: stop_event is
\* not cleared, the thread is not replaced, and the run's plan, step index and
\* control point are untouched, so a cancel sent before it is still pending.
C35_BusyRejectionFrame ==
    [][\A text \in TaskTexts :
          (Running /\ RequestExecuteTask(text)) =>
              /\ last_event' = BusyError
              /\ UNCHANGED <<stop_event, execution_thread, threads, pc, actions,
                             current_step, task_success, retry, ui_context, outcome,
                             cancel_in_run, n_act>>]_vars

\* a request has just been rejected while a cancel is pending on the running task
C35_Witness ==
    /\ Running /\ outcome = "none"
    /\ stop_event /\ cancel_in_run
    /\ pc = "exec"
    /\ last_event = BusyError

\* the current run has printed its task_complete event (a run that ended in
\* Planning printed an error instead and has no plan)
TaskCompleteEmitted ==
    /\ outcome \in {"Succeeded", "Failed", "Cancelled"}
    /\ actions # << >>

\* C36 as stated: once a run has emitted task_complete, the next execute_task
\* request is accepted and starts a new run, and is never rejected as busy on
\* account of the finished run, whatever the interleaving of the two threads.
C36_Original ==
    [][(TaskCompleteEmitted /\ RequestExecuteTask("task")) =>
          /\ last_event' # BusyError
          /\ pc' = "planning"
          /\ execution_thread' = execution_thread + 1]_vars

\* C37: a cancel_task received while the run is in Planning, or before the first
\* iteration of the step loop, leaves the run with no actuator call.  With the
\* flag set, Planning goes on to its error report or to the top of the loop with
\* a plan that has a step, the flag still set; from there the only step of the run
\* is the cancel report, task_complete with success = false, and the run never
\* enters Finalizing.
C37_CancelDuringPlanning ==
    [][(Running /\ stop_event /\ n_act = 0) =>
        /\ pc = "planning" =>
              /\ pc' \in {"planning", "loop_top", "exiting"}
              /\ pc' = "loop_top" => current_step' = 0 /\ Len(actions') > 0
              /\ n_act' = 0 /\ stop_event'
        /\ (pc = "loop_top" /\ pc' # pc) =>
              /\ pc' = "exiting"
              /\ outcome' = "Cancelled"
              /\ last_event' = Event("task_complete", "task", FALSE)
              /\ n_act' = 0
        /\ (pc = "exiting" /\ outcome = "Cancelled") => pc' \in {"exiting", "done"}]_vars

\* a run that was cancelled before its first step and has reported it
C37_Witness ==
    /\ Running /\ pc = "exiting"
    /\ outcome = "Cancelled" /\ cancel_in_run /\ ~stale_cancel
    /\ actions # << >>
    /\ n_act = 0 /\ n_verify = 0 /\ n_recovery = 0

\* the judge's answer is a JSON object that says window_in_focus = true
SaysInFocus(ans) == ans.value.is_dict /\ ans.window_in_focus

\* C38 as stated: a focus_window operation with verify_focus = true makes at most
\* max_attempts attempts, reports success as soon as the judge's answer says
\* window_in_focus = true (no further attempt is made after such an answer), and
\* reports failure only if the judge never said so within max_attempts attempts.
C38_Original ==
    f_verify_focus =>
        /\ f_attempt <= f_max_attempts
        /\ \A i \in 1..Len(f_answers) :
              SaysInFocus(f_answers[i]) => (i = Len(f_answers) /\ f_pc = "done" /\ f_success)
        /\ f_pc = "failed" =>
              /\ ~f_success
              /\ f_attempt = f_max_attempts
              /\ \A i \in 1..Len(f_answers) : ~SaysInFocus(f_answers[i])

\* the messages of an iteration so far: one action_step, then action_start and
\* action_complete in turn, a complete with success = true only as the last one
Bracketed(ev) ==
    /\ ev # << >> => ev[1] = Msg("action_step", FALSE)
    /\ \A i \in 2..Len(ev) :
          /\ i % 2 = 0 => ev[i] = Msg("action_start", FALSE)
          /\ i % 2 = 1 => ev[i].type = "action_complete"
          /\ ev[i].success => i = Len(ev)

\* C39: per-attempt events are well bracketed.  An iteration of the step loop
\* emits one action_step and then, for each attempt of the step's operation, one
\* action_start before the actuator call and one action_complete after it, before
\* the next attempt, the discovery call, the advance or the replan; the
\* action_complete says success = true only when the attempt was verified and the
\* loop advances.
C39_WellBracketed ==
    Running =>
        /\ Bracketed(events)
        /\ pc \in {"exec", "verify"} =>
              /\ Len(events) = 2 * attempts
              /\ events[Len(events)] = Msg("action_start", FALSE)
        /\ pc \in {"reanalysis", "recovery"} =>
              /\ Len(events) = 2 * attempts + 1
              /\ events[Len(events)] = Msg("action_complete", FALSE)
        /\ (pc = "loop_top" /\ events # << >>) =>
              /\ Len(events) = 2 * attempts + 1
              /\ events[Len(events)].type = "action_complete"

\* a step whose first attempt failed and whose second was verified
C39_Witness ==
    /\ Running /\ pc = "loop_top"
    /\ events = <<Msg("action_step", FALSE), Msg("action_start", FALSE),
                  Msg("action_complete", FALSE), Msg("action_start", FALSE),
                  Msg("action_complete", TRUE)>>
\* C40: in the Ollama backend task_complete says success = true only when every
\* step of the plan was executed and verified, and a step that failed all of its
\* max_action_retries attempts is the last step that runs.
C40_Original ==
    /\ o_message = Msg("task_complete", TRUE) =>
          /\ Len(o_log) = Len(o_actions)
          /\ \A i \in 1..Len(o_log) : o_log[i] = "verified"
    /\ \A i \in 1..Len(o_log) :
          o_log[i] = "exhausted" => (i = Len(o_log) /\ o_pc \notin {"exec", "verify"})

====
